---- MODULE Spec2Model ----
(***************************************************************************)
(* Retrieval and ranking layer of the RAG search client: the single-query  *)
(* searcher (RAGQuerySearcher), the advanced searcher (AdvancedRAGSearcher)*)
(* and the design-embedding search (DesignEmbeddingManager).               *)
(*                                                                         *)
(* Numbers.  A similarity is an exact rational, held as an integer number  *)
(* of units of 1/One.  One is chosen so that every operation of the code   *)
(* on a similarity (times a weight, plus, the two-term average, max) is    *)
(* exact within the bounds: cosines are hundredths, weights are multiples  *)
(* of 1/WScale, and at most MaxQueries - 1 halvings happen to one value.   *)
(*                                                                         *)
(* Vectors.  An embedding is a unit vector in the plane at an angle of     *)
(* k * 20 degrees, held as k; the cosine distance operator <=> of the      *)
(* store is 1 - cos of the angle between two vectors.                      *)
(***************************************************************************)
EXTENDS Integers, Sequences, FiniteSets, TLC

VARIABLES
    docs,               \* table rag_documents_instructor, in storage order
    design_embeddings,  \* table design_embeddings, in storage order
    op,                 \* the last call of the caller: its name
    args,               \* ... its arguments
    outcome,            \* ... "none" | "ok" | "error"
    error,              \* ... the exception raised, "" when none
    result,             \* ... the value it returned
    calls,              \* ... the remote calls made for it, in order
    connections,        \* ... the store connections opened for it
    served,             \* how many times in a row the caller has made it
    imported_count,     \* DocumentImporter: the documents it has saved
    failed_count        \* DocumentImporter: the documents it has given up

vars == <<docs, design_embeddings, op, args, outcome, error, result, calls,
          connections, served, imported_count, failed_count>>

-----------------------------------------------------------------------------
(* Bounds of the model *)

MaxDocs == 11
MaxAngle == 3
MaxQueries == 3
WScale == 2
MaxRepeats == 2
MaxTextLen == 4
MaxSentences == 3
MaxTexts == 2
MaxLength == 3
BatchSize == 2
MaxItems == 2

(* Program constants *)

TopN == 10
CandidateLimit == 20
DefaultMinSimilarityPct == 70
DefaultLimit == 5
SearchLimit == 5
ImprovementLimit == 3
KeywordLimit == 5
ExcerptLength == 500

-----------------------------------------------------------------------------
(* Numbers *)

RECURSIVE Pow2(_)
Pow2(n) == IF n <= 0 THEN 1 ELSE 2 * Pow2(n - 1)

\* the two-term average halves a merged value at most MaxQueries - 1 times
HalfScale == Pow2(MaxQueries - 1)

\* p hundredths, in units of 1/One
Pct(p) == p * WScale * HalfScale

\* the similarity 1.0
One == Pct(100)

Abs(x) == IF x < 0 THEN 0 - x ELSE x
Min(a, b) == IF a <= b THEN a ELSE b
Max(a, b) == IF a >= b THEN a ELSE b

Range(s) == {s[i] : i \in DOMAIN s}

-----------------------------------------------------------------------------
(* Vectors and the store's distance operator *)

Vec == 0..MaxAngle

\* cos(k * 20 degrees) in hundredths, k = 0..9
CosTable == <<100, 94, 77, 50, 17, -17, -50, -77, -94, -100>>

\* a <=> b orders rows by the angle between the vectors
Angle(a, b) == Abs(a - b)

\* the SQL expression 1 - (embedding <=> q)
Similarity(a, b) == Pct(CosTable[Angle(a, b) + 1])

-----------------------------------------------------------------------------
(* The embedding backend: the vector the model returns for a query text *)

\* the canned phrases of each mapped category (written in Japanese in the
\* source, given here by their English reading, in the source's order)
category_queries ==
    [navigation |-> <<"navigation menu sidebar",
                      "screen transition flow UI",
                      "menubar header footer">>,
     form |-> <<"form input validation",
                "textbox button submit",
                "user input data entry">>,
     data_display |-> <<"data display table grid",
                        "list card listing",
                        "information display content">>,
     feedback |-> <<"feedback notification alert",
                    "error message success notice",
                    "user notification status display">>]

\* free-text queries and category names that are not mapped
QueryTexts == {"responsive navigation bar", "card grid layout"}
UnmappedCategories == {"button", "modal"}
Categories == DOMAIN category_queries \cup UnmappedCategories

EmbedTable ==
    "responsive navigation bar" :> 0 @@ "card grid layout" :> 3 @@
    "" :> 2 @@
    "button" :> 1 @@ "modal" :> 2 @@
    "navigation menu sidebar" :> 0 @@
    "screen transition flow UI" :> 1 @@
    "menubar header footer" :> 0 @@
    "form input validation" :> 1 @@
    "textbox button submit" :> 2 @@
    "user input data entry" :> 3 @@
    "data display table grid" :> 3 @@
    "list card listing" :> 2 @@
    "information display content" :> 0 @@
    "feedback notification alert" :> 2 @@
    "error message success notice" :> 2 @@
    "user notification status display" :> 3

\* generate_embeddings([query], instruction)[0]
Embed(text) == EmbedTable[text]

\* the instruction every search passes with its query
RetrievalInstruction ==
    "Represent the search query for finding relevant UI components"

-----------------------------------------------------------------------------
(* The store *)

UiTypes == <<"button", "form">>
ExampleIds == <<"ex-a", "ex-b">>

\* a text: which text it is, and the number of its characters
Text(of, length) == [of |-> of, length |-> length]
NoText == Text(0, 0)

\* text[:n], the first n characters of a text
Prefix(text, n) == [text EXCEPT !.length = Min(@, n)]

\* the column claude_evaluation: a JSON object with the key improvements,
\* or an empty one
Evaluation(improvements) == [given |-> TRUE, improvements |-> improvements]
NoEvaluation == [given |-> FALSE, improvements |-> <<>>]

\* the keywords, the evaluation and the content of row i of a table: lists
\* around the lengths the prompts cut them to, and none
StoredKeywords(i) ==
    [j \in 1..<<KeywordLimit, KeywordLimit + 1, 0>>[(i % 3) + 1] |-> 10 * i + j]
StoredEvaluation(i) ==
    IF i % 4 = 2 THEN NoEvaluation
    ELSE Evaluation([j \in 1..<<0, ImprovementLimit + 1, ImprovementLimit>>[(i % 3) + 1] |->
                        10 * i + j])
StoredContent(i) ==
    Text(i, <<ExcerptLength, ExcerptLength + 1, 0, ExcerptLength - 1>>[(i % 4) + 1])

\* a table of n rows: stride 0 puts every row on the same vector, stride 1
\* spreads the rows over the vectors; unapp = 1 leaves every third row
\* unapproved
MkDocs(n, stride, unapp) ==
    [i \in 1..n |->
        [id |-> i,
         title |-> i,
         ui_type |-> UiTypes[(i % 2) + 1],
         embedding |-> (stride * (i - 1)) % (MaxAngle + 1),
         is_approved |-> (unapp = 0 \/ i % 3 # 0),
         keywords |-> StoredKeywords(i),
         claude_evaluation |-> StoredEvaluation(i),
         copied_content |-> StoredContent(i)]]

MkDesign(n, stride) ==
    [i \in 1..n |->
        [id |-> i,
         example_id |-> ExampleIds[(i % 2) + 1],
         embedding |-> (stride * (i - 1)) % (MaxAngle + 1)]]

\* LIMIT k
Limit(rows, k) == SubSeq(rows, 1, Min(k, Len(rows)))

\* ORDER BY embedding <=> q: nearest first, rows at the same distance in
\* storage order
RECURSIVE OrderByDistanceFrom(_, _, _)
OrderByDistanceFrom(rows, q, d) ==
    IF d > MaxAngle THEN <<>>
    ELSE SelectSeq(rows, LAMBDA r : Angle(r.embedding, q) = d)
            \o OrderByDistanceFrom(rows, q, d + 1)

\* a query without its ORDER BY clause: the rows in storage order
OrderByStorage(rows, q) == rows

OrderByDistance(rows, q) == OrderByDistanceFrom(rows, q, 0)

\* dict(zip(columns, row)) for the columns id, ui_type, similarity
ResultRow(r, q) ==
    [id |-> r.id, ui_type |-> r.ui_type, similarity |-> Similarity(r.embedding, q)]

Rows(rows, q) == [i \in 1..Len(rows) |-> ResultRow(rows[i], q)]

\* an optional list argument: None, or a list
None == [given |-> FALSE, list |-> <<>>]
Some(list) == [given |-> TRUE, list |-> list]

\* one remote call of a searcher call: an embedding of a text under an
\* instruction, or a store query with its bound parameters and the number of
\* rows it fetched; error is the exception the call raised, "" when none
EmbedCall(text, instruction) ==
    [kind |-> "embed", what |-> text, params |-> [instruction |-> instruction],
     fetched |-> 0, error |-> ""]
StoreCall(what, params, rows) ==
    [kind |-> "store", what |-> what, params |-> params, fetched |-> Len(rows),
     error |-> ""]

\* a remote call that raised
Failed(call, exception) == [call EXCEPT !.fetched = 0, !.error = exception]

\* what the embedding backend and the store raise when they fail; the store
\* rejects a negative LIMIT
EmbedFailure == "RuntimeError: embedding backend failed"
StoreFailure == "OperationalError: store query failed"
NegativeLimit == "DataError: LIMIT must not be negative"

\* the exception of a store query: the injected failure, or the rejection
\* of its LIMIT
StoreError(failed, limit) ==
    IF failed THEN StoreFailure
    ELSE IF limit < 0 THEN NegativeLimit
    ELSE ""

\* the connections of a call: how many get_db_connection() opened, and how
\* many of them a frame of the raised exception's traceback still refers to
\* when the call ends.  No call closes a connection: the with statement on
\* a connection commits or rolls back and leaves it open, and close() is
\* called nowhere.
NoConnections == [opened |-> 0, held |-> 0]

\* a call that returns: its result, its remote calls, the connections opened
Completed(rows, made, opened) ==
    [outcome |-> "ok", error |-> "", result |-> rows, calls |-> made,
     connections |-> [opened |-> opened, held |-> 0]]

\* a call that raises
Failing(exception, made, opened, held) ==
    [outcome |-> "error", error |-> exception, result |-> <<>>, calls |-> made,
     connections |-> [opened |-> opened, held |-> held]]

\* calls are synchronous and one at a time: a call starts when no result of
\* an earlier call is pending
Idle == outcome = "none"

\* the caller takes the outcome of the call it made
Deliver(run) ==
    /\ outcome' = run.outcome
    /\ error' = run.error
    /\ result' = run.result
    /\ calls' = run.calls
    /\ connections' = run.connections
    /\ served' = 1

-----------------------------------------------------------------------------
(* find_similar_components *)

\* SELECT embedding, title, ui_type ... WHERE id = %s; fetchone()
LookupReference(reference_doc_id) ==
    SelectSeq(docs, LAMBDA r : r.id = reference_doc_id)

\* a WHERE clause that lacks the r.id != %s condition
SimilarWhereKeepsReference(r, reference_doc_id) ==
    r.is_approved

\* WHERE r.is_approved = TRUE AND r.id != %s
SimilarWhere(r, reference_doc_id) ==
    r.is_approved /\ r.id # reference_doc_id

\* the nearest-neighbour query of find_similar_components
SimilarQuery(ref_embedding, reference_doc_id, limit) ==
    Rows(Limit(OrderByDistance(
                 SelectSeq(docs, LAMBDA r : SimilarWhere(r, reference_doc_id)),
                 ref_embedding),
               limit),
         ref_embedding)

\* the first query of find_similar_components, as a remote call
LookupCall(reference_doc_id, found) ==
    StoreCall("lookup", [id |-> reference_doc_id], found)

\* the second query of find_similar_components, as a remote call
NeighborsCall(ref_embedding, reference_doc_id, limit, rows) ==
    StoreCall("neighbors",
              [embedding |-> ref_embedding, id |-> reference_doc_id, limit |-> limit],
              rows)

\* a find_similar_components that takes a missing reference for an empty
\* neighbourhood instead of raising
FindSimilarComponentsSilent(reference_doc_id, limit, fault) ==
    /\ Idle
    /\ op' = "find_similar_components"
    /\ args' = [reference_doc_id |-> reference_doc_id, limit |-> limit]
    /\ \E found \in {LookupReference(reference_doc_id)} :
       \E rows \in {IF found = <<>> THEN <<>>
                    ELSE SimilarQuery(found[1].embedding, reference_doc_id, limit)} :
          Deliver(Completed(rows,
                            <<LookupCall(reference_doc_id, found),
                              NeighborsCall(0, reference_doc_id, limit, rows)>>,
                            2))
    /\ UNCHANGED <<docs, design_embeddings, imported_count, failed_count>>

\* fault = 1: the lookup fails, fault = 2: the neighbour query fails
FindSimilarComponents(reference_doc_id, limit, fault) ==
    /\ Idle
    /\ op' = "find_similar_components"
    /\ args' = [reference_doc_id |-> reference_doc_id, limit |-> limit]
    /\ \E found \in {LookupReference(reference_doc_id)} :
          IF fault = 1
          THEN Deliver(Failing(StoreFailure,
                               <<Failed(LookupCall(reference_doc_id, found),
                                        StoreFailure)>>,
                               1, 1))
          ELSE IF found = <<>>
          THEN Deliver(Failing("ValueError: Document not found",
                               <<LookupCall(reference_doc_id, found)>>,
                               1, 1))
          ELSE \E rows \in {SimilarQuery(found[1].embedding, reference_doc_id, limit)},
                  exception \in {StoreError(fault = 2, limit)} :
               IF exception # ""
               THEN Deliver(Failing(exception,
                                    <<LookupCall(reference_doc_id, found),
                                      Failed(NeighborsCall(found[1].embedding,
                                                           reference_doc_id, limit, rows),
                                             exception)>>,
                                    2, 1))
               ELSE Deliver(Completed(rows,
                                      <<LookupCall(reference_doc_id, found),
                                        NeighborsCall(found[1].embedding,
                                                      reference_doc_id, limit, rows)>>,
                                      2))
    /\ UNCHANGED <<docs, design_embeddings, imported_count, failed_count>>

-----------------------------------------------------------------------------
(* search_similar_documents *)

\* the stored function search_rag_instructor(query_embedding, limit,
\* min_similarity), whose SQL is not among the sources: by the design's
\* nearestNeighbors contract, the approved rows whose similarity exceeds the
\* threshold, nearest first
search_rag_instructor(query_embedding, limit, min_similarity) ==
    Rows(Limit(OrderByDistance(
                 SelectSeq(docs, LAMBDA r :
                     r.is_approved
                     /\ Similarity(r.embedding, query_embedding) > min_similarity),
                 query_embedding),
               limit),
         query_embedding)

\* the rows search_similar_documents returns
SimilarDocuments(query, limit, min_similarity) ==
    search_rag_instructor(Embed(query), limit, min_similarity)

\* the remote calls of one search_similar_documents that returned rows
SimilarDocumentsCalls(query, limit, min_similarity, rows) ==
    <<EmbedCall(query, RetrievalInstruction),
      StoreCall("search_rag_instructor",
                [embedding |-> Embed(query), limit |-> limit,
                 min_similarity |-> min_similarity],
                rows)>>

\* a search_similar_documents that answers a repeated call from the result
\* of the call before it
SimilarDocumentsRunCached(query, limit, min_similarity, fault) ==
    IF op = "search_similar_documents" /\ outcome = "ok" /\ args.query = query
    THEN Completed(result, <<>>, 0)
    ELSE IF fault = 1
    THEN Failing(EmbedFailure,
                 <<Failed(EmbedCall(query, RetrievalInstruction), EmbedFailure)>>,
                 0, 0)
    ELSE Completed(SimilarDocuments(query, limit, min_similarity),
                   SimilarDocumentsCalls(query, limit, min_similarity,
                                         SimilarDocuments(query, limit, min_similarity)),
                   1)

\* one run of search_similar_documents, from the embedding of the query to
\* its return or raise; fault = 1: the embedding call fails, fault = 2: the
\* store query fails
SimilarDocumentsRun(query, limit, min_similarity, fault) ==
    IF fault = 1
    THEN Failing(EmbedFailure,
                 <<Failed(EmbedCall(query, RetrievalInstruction), EmbedFailure)>>,
                 0, 0)
    ELSE CHOOSE run \in
           {IF exception # ""
            THEN Failing(exception,
                         <<EmbedCall(query, RetrievalInstruction),
                           Failed(SimilarDocumentsCalls(query, limit, min_similarity,
                                                        <<>>)[2],
                                  exception)>>,
                         1, 1)
            ELSE Completed(rows,
                           SimilarDocumentsCalls(query, limit, min_similarity, rows),
                           1) :
              rows \in {SimilarDocuments(query, limit, min_similarity)},
              exception \in {StoreError(fault = 2, limit)}} : TRUE

\* the caller's log of a call made again: the remote calls and the
\* connections of the new run follow those of the runs before it
Again(run) ==
    /\ outcome' = run.outcome
    /\ error' = run.error
    /\ result' = run.result
    /\ calls' = calls \o run.calls
    /\ connections' = [opened |-> connections.opened + run.connections.opened,
                       held |-> run.connections.held]
    /\ served' = served + 1

\* the caller calls, or calls once more with the same arguments after the
\* call returned
SearchSimilarDocuments(query, limit, min_similarity, fault) ==
    /\ \/ Idle
       \/ /\ op = "search_similar_documents" /\ outcome = "ok"
          /\ args = [query |-> query, limit |-> limit,
                     min_similarity |-> min_similarity]
          /\ served < MaxRepeats
    /\ op' = "search_similar_documents"
    /\ args' = [query |-> query, limit |-> limit, min_similarity |-> min_similarity]
    /\ \E run \in {SimilarDocumentsRun(query, limit, min_similarity, fault)} :
          IF Idle THEN Deliver(run) ELSE Again(run)
    /\ UNCHANGED <<docs, design_embeddings, imported_count, failed_count>>

-----------------------------------------------------------------------------
(* search_with_filters *)

\* a WHERE clause that lacks the similarity condition
FilterWhereNoThreshold(r, query_embedding, ui_types, min_score) ==
    /\ r.is_approved
    /\ (ui_types.given /\ ui_types.list # <<>>) => r.ui_type \in Range(ui_types.list)

\* a WHERE clause that lacks the r.ui_type IN (...) condition
FilterWhereAnyType(r, query_embedding, ui_types, min_score) ==
    /\ r.is_approved
    /\ Similarity(r.embedding, query_embedding) > min_score

\* a WHERE clause that lacks the r.is_approved = TRUE condition
FilterWhereUnapproved(r, query_embedding, ui_types, min_score) ==
    /\ Similarity(r.embedding, query_embedding) > min_score
    /\ (ui_types.given /\ ui_types.list # <<>>) => r.ui_type \in Range(ui_types.list)

\* WHERE r.is_approved = TRUE AND (1 - (r.embedding <=> %s)) > %s
\* [AND r.ui_type IN (...)]; the IN clause is added only for a list that
\* is given and not empty
FilterWhere(r, query_embedding, ui_types, min_score) ==
    /\ r.is_approved
    /\ Similarity(r.embedding, query_embedding) > min_score
    /\ (ui_types.given /\ ui_types.list # <<>>) => r.ui_type \in Range(ui_types.list)

\* the SELECT list and dict(zip(columns, row)): copied_content is a column
\* only when asked for
FilterRow(r, query_embedding, include_content) ==
    IF include_content
    THEN [id |-> r.id, title |-> r.title, ui_type |-> r.ui_type,
          keywords |-> r.keywords, claude_evaluation |-> r.claude_evaluation,
          similarity |-> Similarity(r.embedding, query_embedding),
          copied_content |-> r.copied_content]
    ELSE [id |-> r.id, title |-> r.title, ui_type |-> r.ui_type,
          keywords |-> r.keywords, claude_evaluation |-> r.claude_evaluation,
          similarity |-> Similarity(r.embedding, query_embedding)]

FilterQuery(query_embedding, ui_types, min_score, limit, include_content) ==
    LET hits == Limit(OrderByDistance(
                        SelectSeq(docs, LAMBDA r :
                            FilterWhere(r, query_embedding, ui_types, min_score)),
                        query_embedding),
                      limit)
    IN [i \in 1..Len(hits) |-> FilterRow(hits[i], query_embedding, include_content)]

\* params = [query_embedding, query_embedding, min_score] + ui_types
\*          + [query_embedding, limit]
FilterParams(query_embedding, ui_types, min_score, limit) ==
    [embedding |-> query_embedding, min_score |-> min_score,
     ui_types |-> IF ui_types.given THEN ui_types.list ELSE <<>>,
     limit |-> limit]

\* the loop over the fetched rows: every row is appended to search_results
FilterResults(rows) == rows

\* one run of search_with_filters; fault = 1: the embedding call fails,
\* fault = 2: the store query fails
FilterRun(query, ui_types, min_score, limit, include_content, fault) ==
    IF fault = 1
    THEN Failing(EmbedFailure,
                 <<Failed(EmbedCall(query, RetrievalInstruction), EmbedFailure)>>,
                 0, 0)
    ELSE LET rows == FilterQuery(Embed(query), ui_types, min_score, limit,
                                 include_content)
             made == <<EmbedCall(query, RetrievalInstruction),
                       StoreCall("filtered",
                                 FilterParams(Embed(query), ui_types, min_score, limit),
                                 rows)>>
             exception == StoreError(fault = 2, limit)
         IN IF exception # ""
            THEN Failing(exception, <<made[1], Failed(made[2], exception)>>, 1, 1)
            ELSE Completed(FilterResults(rows), made, 1)

SearchWithFilters(query, ui_types, min_score, limit, include_content, fault) ==
    /\ Idle
    /\ op' = "search_with_filters"
    /\ args' = [query |-> query, ui_types |-> ui_types, min_score |-> min_score,
                limit |-> limit, include_content |-> include_content]
    /\ \E run \in {FilterRun(query, ui_types, min_score, limit, include_content,
                             fault)} :
          Deliver(run)
    /\ UNCHANGED <<docs, design_embeddings, imported_count, failed_count>>

-----------------------------------------------------------------------------
(* search_similar_embeddings (design_embeddings) *)

\* WHERE (1 - (de.embedding <=> %s)) > %s [AND de.example_id IN (...)]
EmbeddingWhere(r, query_embedding, similarity_threshold, example_id_filter) ==
    /\ Similarity(r.embedding, query_embedding) > similarity_threshold
    /\ (example_id_filter.given /\ example_id_filter.list # <<>>)
          => r.example_id \in Range(example_id_filter.list)

EmbeddingRow(r, query_embedding) ==
    [id |-> r.id, example_id |-> r.example_id,
     similarity |-> Similarity(r.embedding, query_embedding)]

\* ... ORDER BY similarity DESC LIMIT %s
EmbeddingQuery(query_embedding, limit, similarity_threshold, example_id_filter) ==
    LET hits == Limit(OrderByDistance(
                        SelectSeq(design_embeddings, LAMBDA r :
                            EmbeddingWhere(r, query_embedding, similarity_threshold,
                                           example_id_filter)),
                        query_embedding),
                      limit)
    IN [i \in 1..Len(hits) |-> EmbeddingRow(hits[i], query_embedding)]

\* params = [query_embedding, query_embedding, similarity_threshold]
\*          + example_id_filter + [limit]
EmbeddingParams(query_embedding, limit, similarity_threshold, example_id_filter) ==
    [embedding |-> query_embedding, similarity_threshold |-> similarity_threshold,
     example_id_filter |-> IF example_id_filter.given THEN example_id_filter.list
                           ELSE <<>>,
     limit |-> limit]

\* the loop over the fetched rows: every row is appended to search_results
EmbeddingResults(rows) == rows

\* generate_single_embedding(query_text) takes no instruction; fault = 1:
\* the embedding call fails, fault = 2: the store query fails
SearchSimilarEmbeddings(query_text, limit, similarity_threshold, example_id_filter, fault) ==
    /\ Idle
    /\ op' = "search_similar_embeddings"
    /\ args' = [query_text |-> query_text, limit |-> limit,
                similarity_threshold |-> similarity_threshold,
                example_id_filter |-> example_id_filter]
    /\ \E rows \in {EmbeddingQuery(Embed(query_text), limit, similarity_threshold,
                                  example_id_filter)},
          exception \in {StoreError(fault = 2, limit)} :
          \E made \in {<<EmbedCall(query_text, ""),
                         StoreCall("design_embeddings",
                                   EmbeddingParams(Embed(query_text), limit,
                                                   similarity_threshold,
                                                   example_id_filter),
                                   rows)>>} :
             IF fault = 1
             THEN Deliver(Failing(EmbedFailure, <<Failed(made[1], EmbedFailure)>>,
                                  0, 0))
             ELSE IF exception # ""
             THEN Deliver(Failing(exception, <<made[1], Failed(made[2], exception)>>,
                                  1, 1))
             ELSE Deliver(Completed(EmbeddingResults(rows), made, 1))
    /\ UNCHANGED <<docs, design_embeddings, imported_count, failed_count>>

-----------------------------------------------------------------------------
(* multi_query_search *)

\* a membership test that never finds the key
KeyIndexMisses(all_results, doc_id) == 0

\* the position of doc_id in the all_results dict (insertion order), 0 when
\* it is not a key
KeyIndex(all_results, doc_id) ==
    LET hit == {i \in 1..Len(all_results) : all_results[i].id = doc_id}
    IN IF hit = {} THEN 0 ELSE CHOOSE i \in hit : TRUE

\* result['similarity'] * weight, the weight being a multiple of 1/WScale
Weighted(similarity, weight) == (similarity * weight) \div WScale

\* an aggregation whose "weighted" branch assigns instead of adding
AggregateOverwrites(aggregation, merged, similarity) ==
    CASE aggregation = "max" -> Max(merged, similarity)
      [] aggregation = "mean" -> (merged + similarity) \div 2
      [] aggregation = "weighted" -> similarity
      [] OTHER -> merged

\* an aggregation whose "max" branch keeps the value it has
AggregateKeepsFirst(aggregation, merged, similarity) ==
    CASE aggregation = "max" -> merged
      [] aggregation = "mean" -> (merged + similarity) \div 2
      [] aggregation = "weighted" -> merged + similarity
      [] OTHER -> merged

\* an aggregation whose "mean" branch adds without halving
AggregateMeanUnhalved(aggregation, merged, similarity) ==
    CASE aggregation = "max" -> Max(merged, similarity)
      [] aggregation = "mean" -> merged + similarity
      [] aggregation = "weighted" -> merged + similarity
      [] OTHER -> merged

\* an aggregation whose "weighted" branch averages with what it has
AggregateWeightedHalves(aggregation, merged, similarity) ==
    CASE aggregation = "max" -> Max(merged, similarity)
      [] aggregation = "mean" -> (merged + similarity) \div 2
      [] aggregation = "weighted" -> (merged + similarity) \div 2
      [] OTHER -> merged

\* the if / elif chain on the aggregation string, for a key already present
Aggregate(aggregation, merged, similarity) ==
    CASE aggregation = "max" -> Max(merged, similarity)
      [] aggregation = "mean" -> (merged + similarity) \div 2
      [] aggregation = "weighted" -> merged + similarity
      [] OTHER -> merged

\* the body of the inner loop, for one row of one sub-query
MergeRow(all_results, row, weight, aggregation) ==
    LET similarity == Weighted(row.similarity, weight)
        k == KeyIndex(all_results, row.id)
    IN IF k > 0
       THEN [all_results EXCEPT ![k].similarity = Aggregate(aggregation, @, similarity)]
       ELSE Append(all_results, [row EXCEPT !.similarity = similarity])

\* the inner loop over the rows of one sub-query
RECURSIVE MergeRows(_, _, _, _, _)
MergeRows(all_results, rows, j, weight, aggregation) ==
    IF j > Len(rows) THEN all_results
    ELSE CHOOSE out \in
           {MergeRows(merged, rows, j + 1, weight, aggregation) :
              merged \in {MergeRow(all_results, rows[j], weight, aggregation)}} : TRUE

\* the weight of query i: weights[i] if weights else 1.0
WeightOf(weights, i) ==
    IF weights.given /\ weights.list # <<>> THEN weights.list[i] ELSE WScale

\* the fault of sub-query i, when the fault of the call is on its j-th
\* remote call: sub-query i makes the calls 2i - 1 (embedding) and 2i (store)
SubFault(fault, i) ==
    IF fault = 2 * i - 1 THEN 1 ELSE IF fault = 2 * i THEN 2 ELSE 0

\* the outer loop from query i on: weights[i] raises IndexError when a
\* non-empty weights list is shorter than the queries
RECURSIVE RunQueries(_, _, _, _, _, _, _, _)

\* a loop that leaves out a sub-query that raised and goes on
MergeQuerySkipsFailure(queries, weights, aggregation, i, all_results, made, opened, fault, run) ==
    CHOOSE out \in
      {RunQueries(queries, weights, aggregation, i + 1, merged, called,
                  opened + run.connections.opened, fault) :
         merged \in {MergeRows(all_results, run.result, 1, WeightOf(weights, i),
                               aggregation)},
         called \in {made \o run.calls}} : TRUE

\* the rest of iteration i, once its sub-query has returned or raised: the
\* loop has no handler, the exception of a sub-query ends the call
MergeQuery(queries, weights, aggregation, i, all_results, made, opened, fault, run) ==
    IF run.outcome = "error"
    THEN Failing(run.error, made \o run.calls, opened + run.connections.opened,
                 run.connections.held)
    ELSE CHOOSE out \in
           {RunQueries(queries, weights, aggregation, i + 1, merged, called,
                       opened + run.connections.opened, fault) :
              merged \in {MergeRows(all_results, run.result, 1, WeightOf(weights, i),
                                    aggregation)},
              called \in {made \o run.calls}} : TRUE

RunQueries(queries, weights, aggregation, i, all_results, made, opened, fault) ==
    IF i > Len(queries)
    THEN Completed(all_results, made, opened)
    ELSE IF weights.given /\ weights.list # <<>> /\ i > Len(weights.list)
    THEN Failing("IndexError: list index out of range", made, opened, 0)
    ELSE CHOOSE out \in
           {MergeQuery(queries, weights, aggregation, i, all_results, made, opened,
                       fault, run) :
              run \in {SimilarDocumentsRun(queries[i], CandidateLimit,
                                           Pct(DefaultMinSimilarityPct),
                                           SubFault(fault, i))}} : TRUE

\* sorted(..., key=similarity, reverse=True): a stable sort, so rows of equal
\* similarity keep their order
InsertDesc(sorted, x) ==
    LET k == Cardinality({i \in 1..Len(sorted) : sorted[i].similarity >= x.similarity})
    IN SubSeq(sorted, 1, k) \o <<x>> \o SubSeq(sorted, k + 1, Len(sorted))

RECURSIVE SortedFrom(_, _, _)
SortedFrom(rows, i, acc) ==
    IF i > Len(rows) THEN acc
    ELSE CHOOSE out \in
           {SortedFrom(rows, i + 1, next) : next \in {InsertDesc(acc, rows[i])}} : TRUE

SortedDesc(rows) == SortedFrom(rows, 1, <<>>)

\* a slice of the dict's values in insertion order, the sort left out
FinalResultsUnsorted(all_results) == Limit(all_results, TopN)

\* a slice that is one element short
FinalResultsShort(all_results) == Limit(SortedDesc(all_results), TopN - 1)

\* sorted(all_results.values(), ...)[:10]
FinalResults(all_results) == Limit(SortedDesc(all_results), TopN)

\* what multi_query_search leaves behind: the loop's exception, or the
\* sorted and sliced values of all_results
MultiQueryOutcome(queries, aggregation, weights, fault) ==
    \E run \in {RunQueries(queries, weights, aggregation, 1, <<>>, <<>>, 0, fault)} :
       IF run.outcome = "error"
       THEN Deliver(run)
       ELSE \E sorted_results \in {FinalResults(run.result)} :
               Deliver([run EXCEPT !.result = sorted_results])

MultiQuerySearch(queries, aggregation, weights, fault) ==
    /\ Idle
    /\ op' = "multi_query_search"
    /\ args' = [queries |-> queries, aggregation |-> aggregation, weights |-> weights]
    /\ MultiQueryOutcome(queries, aggregation, weights, fault)
    /\ UNCHANGED <<docs, design_embeddings, imported_count, failed_count>>

-----------------------------------------------------------------------------
(* semantic_category_search *)

\* a fallback that pads the unmapped name to a list of two queries
CategoryQueriesTwice(category) ==
    IF category \notin DOMAIN category_queries
    THEN <<category, category>>
    ELSE category_queries[category]

\* the queries of a category: its canned phrases, or its name
CategoryQueries(category) ==
    IF category \notin DOMAIN category_queries
    THEN <<category>>
    ELSE category_queries[category]

SemanticCategorySearch(category, limit, fault) ==
    /\ Idle
    /\ op' = "semantic_category_search"
    /\ args' = [category |-> category, limit |-> limit]
    /\ MultiQueryOutcome(CategoryQueries(category), "weighted", None, fault)
    /\ UNCHANGED <<docs, design_embeddings, imported_count, failed_count>>

-----------------------------------------------------------------------------
(* Inputs *)

Limits == {1, 3}

\* small tables, and tables around the size TopN of a merged list
StoreSizes == (0..3) \cup ((MaxDocs - 2)..MaxDocs)
DocIds == 1..(MaxDocs + 1)
Thresholds == {0, Pct(77), One}
UiTypeLists == {None, Some(<<>>), Some(<<"button">>), Some(<<"form", "card">>)}
ExampleIdLists == {None, Some(<<"ex-a">>)}
Aggregations == {"max", "mean", "weighted", "median"}

\* the weights 0.5 and 1.0
WeightVals == {WScale \div 2, WScale}

QueryLists == UNION {[1..n -> QueryTexts] : n \in 0..MaxQueries}

\* no weights, one weight per query, or a list one shorter or one longer
WeightLists(n) ==
    {None} \cup {Some(w) : w \in [1..n -> WeightVals]}
           \cup {Some([i \in 1..m |-> WScale]) : m \in {n - 1, n + 1} \cap Nat}

\* which remote call of a call fails: none, the first or the second
Faults == 0..2

\* arguments the parameter validation of the design rejects: an empty
\* query, a negative limit, a threshold below 0 or above 1
MalformedInputs ==
    {[query |-> "", limit |-> 3, threshold |-> Pct(DefaultMinSimilarityPct)],
     [query |-> "card grid layout", limit |-> 0 - 1,
      threshold |-> Pct(DefaultMinSimilarityPct)],
     [query |-> "card grid layout", limit |-> 3, threshold |-> 0 - Pct(50)],
     [query |-> "card grid layout", limit |-> 3, threshold |-> Pct(150)]}

\* the arguments of search_similar_documents
SimilarDocumentsInputs ==
    [query : QueryTexts, limit : Limits \cup {DefaultLimit},
     threshold : Thresholds \cup {Pct(DefaultMinSimilarityPct)}]
    \cup MalformedInputs

\* the arguments of search_with_filters, and those the failing calls are
\* drawn from
FilterInputs ==
    [query : QueryTexts, ui_types : UiTypeLists, threshold : Thresholds,
     limit : Limits, include_content : BOOLEAN]
    \cup {[query |-> m.query, ui_types |-> None, threshold |-> m.threshold,
           limit |-> m.limit, include_content |-> FALSE] : m \in MalformedInputs}

PlainFilterInputs == {a \in FilterInputs : a.ui_types = None /\ ~a.include_content}

\* multi_query_search calls in which a remote call fails
FaultyMultiQueries ==
    UNION {{[queries |-> q, weights |-> w, fault |-> f] :
               w \in {None, Some([i \in 1..Len(q) |-> WScale])},
               f \in 1..(2 * Len(q))} :
           q \in QueryLists \ {<<>>}}

-----------------------------------------------------------------------------
(* The state machine *)

Init ==
    /\ \E n \in StoreSizes, stride \in {0, 1}, unapp \in {0, 1} :
          /\ docs = MkDocs(n, stride, unapp)
          /\ design_embeddings = MkDesign(n, stride)
    /\ op = "none"
    /\ args = <<>>
    /\ outcome = "none"
    /\ error = ""
    /\ result = <<>>
    /\ calls = <<>>
    /\ connections = NoConnections
    /\ served = 0
    /\ imported_count = 0
    /\ failed_count = 0

\* the caller is done with the result of the last call: search results are
\* created per request and discarded after use
Discard ==
    /\ ~Idle
    /\ op' = "none"
    /\ args' = <<>>
    /\ outcome' = "none"
    /\ error' = ""
    /\ result' = <<>>
    /\ calls' = <<>>
    /\ connections' = NoConnections
    /\ served' = 0
    /\ UNCHANGED <<docs, design_embeddings, imported_count, failed_count>>

Next ==
    \/ \E id \in DocIds, limit \in Limits \cup {DefaultLimit} :
          FindSimilarComponents(id, limit, 0)
    \/ \E id \in DocIds, fault \in Faults \ {0} :
          FindSimilarComponents(id, DefaultLimit, fault)
    \/ \E a \in SimilarDocumentsInputs, fault \in Faults :
          SearchSimilarDocuments(a.query, a.limit, a.threshold, fault)
    \/ \E a \in FilterInputs :
          SearchWithFilters(a.query, a.ui_types, a.threshold, a.limit,
                            a.include_content, 0)
    \/ \E a \in PlainFilterInputs, fault \in Faults \ {0} :
          SearchWithFilters(a.query, a.ui_types, a.threshold, a.limit,
                            a.include_content, fault)
    \/ \E query_text \in QueryTexts, limit \in Limits, threshold \in Thresholds,
          example_id_filter \in ExampleIdLists :
          SearchSimilarEmbeddings(query_text, limit, threshold, example_id_filter, 0)
    \/ \E query_text \in QueryTexts, limit \in Limits, fault \in Faults \ {0} :
          SearchSimilarEmbeddings(query_text, limit, Pct(DefaultMinSimilarityPct),
                                  None, fault)
    \/ \E queries \in QueryLists, aggregation \in Aggregations :
          \E weights \in WeightLists(Len(queries)) :
             MultiQuerySearch(queries, aggregation, weights, 0)
    \/ \E a \in FaultyMultiQueries :
          MultiQuerySearch(a.queries, "max", a.weights, a.fault)
    \/ \E category \in Categories, limit \in Limits \cup {DefaultLimit} :
          SemanticCategorySearch(category, limit, 0)
    \/ \E category \in Categories :
          \E fault \in 1..(2 * Len(CategoryQueries(category))) :
             SemanticCategorySearch(category, DefaultLimit, fault)
    \/ Discard

Spec == Init /\ [][Next]_vars

-----------------------------------------------------------------------------
(* The embedding provider: _chunk_text *)

\* a text is a sequence of characters: letters, the space, and the sentence
\* delimiter (the ideographic full stop of the source, written "." here)
Letter == "a"
Letters == {Letter, "b"}
Space == " "
Stop == "."
Chars == Letters \cup {Space, Stop}

\* text.split(delimiter): the pieces between the delimiters, the empty
\* pieces included
RECURSIVE SplitFrom(_, _, _)
SplitFrom(text, i, piece) ==
    IF i > Len(text) THEN <<piece>>
    ELSE IF text[i] = Stop THEN <<piece>> \o SplitFrom(text, i + 1, <<>>)
    ELSE SplitFrom(text, i + 1, Append(piece, text[i]))

Split(text) == SplitFrom(text, 1, <<>>)

\* str.strip()
RECURSIVE LStrip(_)
LStrip(text) ==
    IF text # <<>> /\ text[1] = Space THEN LStrip(Tail(text)) ELSE text

RECURSIVE RStrip(_)
RStrip(text) ==
    IF text # <<>> /\ text[Len(text)] = Space
    THEN RStrip(SubSeq(text, 1, Len(text) - 1))
    ELSE text

Strip(text) == RStrip(LStrip(text))

\* if current_chunk: chunks.append(current_chunk.strip())
Flush(chunks, current_chunk) ==
    IF current_chunk # <<>> THEN Append(chunks, Strip(current_chunk)) ELSE chunks

\* the loop over the sentences, and the flush after it
RECURSIVE ChunkLoop(_, _, _, _, _)
ChunkLoop(sentences, i, chunks, current_chunk, max_length) ==
    IF i > Len(sentences) THEN Flush(chunks, current_chunk)
    ELSE IF Len(current_chunk \o sentences[i] \o <<Stop>>) <= max_length
    THEN ChunkLoop(sentences, i + 1, chunks,
                   current_chunk \o sentences[i] \o <<Stop>>, max_length)
    ELSE ChunkLoop(sentences, i + 1, Flush(chunks, current_chunk),
                   sentences[i] \o <<Stop>>, max_length)

\* _chunk_text(text, max_length)
chunk_text(text, max_length) ==
    LET chunks == ChunkLoop(Split(text), 1, <<>>, <<>>, max_length)
    IN IF chunks # <<>> THEN chunks
       ELSE <<SubSeq(text, 1, Min(max_length, Len(text)))>>

ChunkText(text, max_length) ==
    /\ Idle
    /\ op' = "_chunk_text"
    /\ args' = [text |-> text, max_length |-> max_length]
    /\ Deliver(Completed(chunk_text(text, max_length), <<>>, 0))
    /\ UNCHANGED <<docs, design_embeddings, imported_count, failed_count>>

-----------------------------------------------------------------------------
(* The embedding provider: generate_embeddings *)

\* a vector is num / den, component by component; the vectors of the model
\* backend have den = 1 and the length 5, which stands for the unit length
UnitVectors == <<<<5, 0>>, <<4, 3>>, <<3, 4>>, <<0, 5>>>>

\* the dimension the embedding model is configured for
EmbeddingDim == Len(UnitVectors[1])

Count(text, c) == Cardinality({i \in DOMAIN text : text[i] = c})

DefaultInstruction == "Represent the UI component for retrieval"
Instructions == {DefaultInstruction, RetrievalInstruction}

\* the vector of the model for one [instruction, chunk] pair: some function
\* of the two
Encode(instruction, chunk) ==
    [num |-> UnitVectors[((Count(chunk, Letter) + 2 * Count(chunk, Stop)
                           + 3 * Count(chunk, "b")
                           + (IF instruction = DefaultInstruction THEN 0 ELSE 1))
                          % Len(UnitVectors)) + 1],
     den |-> 1]

\* a vector of a dimension other than the configured one
Truncated(vector) == [vector EXCEPT !.num = SubSeq(@, 1, Len(@) - 1)]

\* what the backend does with a batch: "ok", "unreachable" (the call
\* raises), or "wrong_dimension" (every vector of the array it returns has
\* another dimension)
Backends == {"ok", "unreachable", "wrong_dimension"}

\* instructed_texts: the [instruction, chunk] pairs of all texts, in order
RECURSIVE InstructedTexts(_, _)
InstructedTexts(texts, i) ==
    IF i > Len(texts) THEN <<>>
    ELSE chunk_text(texts[i], MaxLength) \o InstructedTexts(texts, i + 1)

\* model.encode(instructed_texts, ...)
ModelEncode(instruction, chunks, backend) ==
    [j \in 1..Len(chunks) |->
        IF backend = "wrong_dimension"
        THEN Truncated(Encode(instruction, chunks[j]))
        ELSE Encode(instruction, chunks[j])]

\* the sum of vectors of den 1, component by component
RECURSIVE SumVectors(_, _)
SumVectors(vectors, j) ==
    IF j = Len(vectors) THEN vectors[j].num
    ELSE [c \in DOMAIN vectors[j].num |->
             vectors[j].num[c] + SumVectors(vectors, j + 1)[c]]

\* np.mean(chunk_embeddings, axis=0)
Mean(vectors) == [num |-> SumVectors(vectors, 1), den |-> Len(vectors)]

\* the averaging branch: chunks_per_text = len(instructed_texts) // len(texts),
\* and the i-th vector is the mean of the i-th slice of that many embeddings
Averaged(embeddings, n) ==
    LET chunks_per_text == Len(embeddings) \div n
    IN [i \in 1..n |->
           Mean(SubSeq(embeddings, (i - 1) * chunks_per_text + 1,
                       i * chunks_per_text))]

\* the one call of the model, as a remote call
EncodeCall(instruction, chunks, vectors) ==
    [kind |-> "embed", what |-> chunks, params |-> [instruction |-> instruction],
     fetched |-> Len(vectors), error |-> "", vectors |-> vectors]

\* InstructorXLEmbedder.generate_embeddings(texts, instruction)
GenerateEmbeddings(texts, instruction, backend) ==
    /\ Idle
    /\ op' = "generate_embeddings"
    /\ args' = [texts |-> texts, instruction |-> instruction]
    /\ \E instructed_texts \in {InstructedTexts(texts, 1)} :
       \E embeddings \in {ModelEncode(instruction, instructed_texts, backend)} :
          IF backend = "unreachable"
          THEN Deliver(Failing(EmbedFailure,
                               <<Failed(EncodeCall(instruction, instructed_texts, <<>>),
                                        EmbedFailure)>>,
                               0, 0))
          ELSE Deliver(Completed(
                   IF Len(instructed_texts) > Len(texts)
                   THEN Averaged(embeddings, Len(texts))
                   ELSE embeddings,
                   <<EncodeCall(instruction, instructed_texts, embeddings)>>,
                   0))
    /\ UNCHANGED <<docs, design_embeddings, imported_count, failed_count>>

-----------------------------------------------------------------------------
(* The embedding provider: OpenAIEmbeddingProcessor.generate_embeddings *)

\* the batches texts[i:i + batch_size], i = 0, batch_size, ...
RECURSIVE Batches(_, _)
Batches(texts, i) ==
    IF i > Len(texts) THEN <<>>
    ELSE <<[first |-> i, last |-> Min(i + BatchSize - 1, Len(texts))]>>
            \o Batches(texts, i + BatchSize)

\* the embedding of the API for the text at position i; the vector at
\* position bad_at has another dimension
ApiEmbedding(texts, i, bad_at) ==
    IF i = bad_at THEN Truncated(Encode("", texts[i])) ELSE Encode("", texts[i])

\* the loop over the batches from batch b on: openai.Embedding.create raises
\* at batch unreachable_at
RECURSIVE CreateEmbeddings(_, _, _, _, _, _)
CreateEmbeddings(texts, batches, b, all_embeddings, made, backend) ==
    IF b > Len(batches)
    THEN IF all_embeddings # <<>> /\ Len(all_embeddings[1].num) # EmbeddingDim
         THEN Failing("ValueError: unexpected dimensions", made, 0, 0)
         ELSE Completed(all_embeddings, made, 0)
    ELSE LET batch_texts == SubSeq(texts, batches[b].first, batches[b].last)
             batch_embeddings ==
                 [k \in 1..Len(batch_texts) |->
                     ApiEmbedding(texts, batches[b].first + k - 1, backend.bad_at)]
         IN IF b = backend.unreachable_at
            THEN Failing(EmbedFailure,
                         Append(made, Failed(EncodeCall("", batch_texts, <<>>),
                                             EmbedFailure)),
                         0, 0)
            ELSE CreateEmbeddings(texts, batches, b + 1,
                                  all_embeddings \o batch_embeddings,
                                  Append(made, EncodeCall("", batch_texts,
                                                          batch_embeddings)),
                                  backend)

OpenAIGenerateEmbeddings(texts, backend) ==
    /\ Idle
    /\ op' = "openai_generate_embeddings"
    /\ args' = [texts |-> texts]
    /\ \E run \in {IF texts = <<>> THEN Completed(<<>>, <<>>, 0)
                    ELSE CreateEmbeddings(texts, Batches(texts, 1), 1, <<>>, <<>>,
                                          backend)} :
          Deliver(run)
    /\ UNCHANGED <<docs, design_embeddings, imported_count, failed_count>>

-----------------------------------------------------------------------------
(* The embedding provider: inputs and state machine *)

\* every text of at most MaxTextLen characters
AllTexts == UNION {[1..n -> Chars] : n \in 0..MaxTextLen}

\* a text of sentences of the given numbers of letters, a delimiter between
\* two sentences
RECURSIVE TextOf(_)
TextOf(lengths) ==
    IF lengths = <<>> THEN <<>>
    ELSE [k \in 1..lengths[1] |-> Letter]
            \o (IF Len(lengths) > 1 THEN <<Stop>> ELSE <<>>)
            \o TextOf(Tail(lengths))

\* texts of one or more sentences of one or two letters: one chunk or more
SentenceTexts ==
    {TextOf(lengths) : lengths \in UNION {[1..n -> 1..2] : n \in 1..MaxSentences}}

TextLists == UNION {[1..n -> SentenceTexts] : n \in 1..MaxTexts}

\* the lists of the API client: short lists of two texts, the empty list
\* included
ApiTextLists ==
    UNION {[1..n -> {<<Letter>>, <<Letter, Letter>>}] : n \in 0..(BatchSize + 1)}

ApiBackends == [unreachable_at : 0..2, bad_at : 0..(BatchSize + 1)]

EmbedderInit ==
    /\ docs = <<>>
    /\ design_embeddings = <<>>
    /\ op = "none"
    /\ args = <<>>
    /\ outcome = "none"
    /\ error = ""
    /\ result = <<>>
    /\ calls = <<>>
    /\ connections = NoConnections
    /\ served = 0
    /\ imported_count = 0
    /\ failed_count = 0

EmbedderNext ==
    \/ \E text \in AllTexts, max_length \in 1..MaxLength :
          ChunkText(text, max_length)
    \/ \E texts \in TextLists, instruction \in Instructions, backend \in Backends :
          GenerateEmbeddings(texts, instruction, backend)
    \/ \E texts \in ApiTextLists, backend \in ApiBackends :
          OpenAIGenerateEmbeddings(texts, backend)
    \/ Discard

EmbedderSpec == EmbedderInit /\ [][EmbedderNext]_vars

-----------------------------------------------------------------------------
(* The prompt pipeline: generate_comprehensive_prompt, process_complete_query *)

\* the optional project context: None, or a dict
NoContext == [given |-> FALSE, tech_stack |-> ""]
Contexts == {NoContext, [given |-> TRUE, tech_stack |-> "React"]}

\* the readings of the clock
Clock == {1, 2}

\* f"{similarity:.2f}": a similarity in hundredths, the nearest one
TwoDecimals(similarity) ==
    (2 * similarity + WScale * HalfScale) \div (2 * WScale * HalfScale)

\* a slice that keeps the whole list
FirstOfUncut(list, n) == list

\* improvements[:3], keywords[:5]
FirstOf(list, n) == SubSeq(list, 1, Min(n, Len(list)))

\* the block of result i of the system prompt: its heading, and the lines
\* its row has something for.  The improvements are a line only of a row
\* with an evaluation, the excerpt is a line only of a row with the column
\* copied_content and a content that is not empty
ResultBlock(i, row) ==
    [number |-> i, title |-> row.title, similarity |-> TwoDecimals(row.similarity),
     ui_type |-> row.ui_type,
     improvements |-> IF row.claude_evaluation.given
                         /\ row.claude_evaluation.improvements # <<>>
                      THEN <<FirstOf(row.claude_evaluation.improvements,
                                     ImprovementLimit)>>
                      ELSE <<>>,
     keywords |-> IF row.keywords # <<>>
                  THEN <<FirstOf(row.keywords, KeywordLimit)>> ELSE <<>>,
     copied_content |-> IF "copied_content" \in DOMAIN row
                           /\ row.copied_content.length > 0
                        THEN <<Prefix(row.copied_content, ExcerptLength)>>
                        ELSE <<>>]

\* a loop that numbers the blocks from 0
BuildSystemPromptFromZero(search_results, context) ==
    [count |-> Len(search_results),
     blocks |-> [i \in 1..Len(search_results) |->
                   ResultBlock(i - 1, search_results[i])],
     project |-> IF context.given THEN <<context.tech_stack>> ELSE <<>>]

\* _build_system_prompt: the header with the number of results, one block
\* per result numbered from 1, the project block when a context is given
BuildSystemPrompt(search_results, context) ==
    [count |-> Len(search_results),
     blocks |-> [i \in 1..Len(search_results) |-> ResultBlock(i, search_results[i])],
     project |-> IF context.given THEN <<context.tech_stack>> ELSE <<>>]

\* _build_user_prompt
BuildUserPrompt(user_query, search_results) ==
    [query |-> user_query, count |-> Len(search_results)]

\* the payload of generate_comprehensive_prompt for the rows it found
ComprehensivePrompt(user_query, search_results, context, generated_at) ==
    [system |-> BuildSystemPrompt(search_results, context),
     user |-> BuildUserPrompt(user_query, search_results),
     metadata |-> [search_query |-> user_query,
                   results_count |-> Len(search_results),
                   generated_at |-> generated_at]]

\* generate_comprehensive_prompt: the search runs with limit = search_limit
\* and include_content = include_code, ui_types and min_score at their
\* defaults; it has no handler, a failure of the search is the failure of
\* the call
PromptRun(user_query, search_limit, include_code, context, fault, generated_at) ==
    CHOOSE out \in
      {IF run.outcome = "error" THEN run
       ELSE [run EXCEPT !.result = ComprehensivePrompt(user_query, run.result,
                                                       context, generated_at)] :
         run \in {FilterRun(user_query, None, 0, search_limit, include_code,
                            IF fault \in 1..2 THEN fault ELSE 0)}} : TRUE

\* the caller asks for a prompt, or asks once more with the same arguments
\* after the call returned; the clock does not go back
GenerateComprehensivePrompt(user_query, search_limit, include_code, context, fault, generated_at) ==
    /\ \/ Idle
       \/ /\ op = "generate_comprehensive_prompt" /\ outcome = "ok"
          /\ args = [user_query |-> user_query, search_limit |-> search_limit,
                     include_code |-> include_code, context |-> context]
          /\ served < MaxRepeats
          /\ result.metadata.generated_at <= generated_at
    /\ op' = "generate_comprehensive_prompt"
    /\ args' = [user_query |-> user_query, search_limit |-> search_limit,
                include_code |-> include_code, context |-> context]
    /\ \E run \in {PromptRun(user_query, search_limit, include_code, context,
                             fault, generated_at)} :
          IF Idle THEN Deliver(run) ELSE Again(run)
    /\ UNCHANGED <<docs, design_embeddings, imported_count, failed_count>>

\* the block of result i of generate_design_advice_prompt: as that of
\* _build_system_prompt, without a content excerpt
AdviceBlock(i, row) ==
    [number |-> i, title |-> row.title, similarity |-> TwoDecimals(row.similarity),
     ui_type |-> row.ui_type,
     improvements |-> IF row.claude_evaluation.given
                         /\ row.claude_evaluation.improvements # <<>>
                      THEN <<FirstOf(row.claude_evaluation.improvements,
                                     ImprovementLimit)>>
                      ELSE <<>>,
     keywords |-> IF row.keywords # <<>>
                  THEN <<FirstOf(row.keywords, KeywordLimit)>> ELSE <<>>]

\* the payload of generate_design_advice_prompt
DesignAdvicePrompt(search_results, user_query, context) ==
    [system |-> [blocks |-> [i \in 1..Len(search_results) |->
                               AdviceBlock(i, search_results[i])],
                 project |-> IF context.given THEN <<context.tech_stack>> ELSE <<>>],
     user |-> [query |-> user_query]]

\* generate_design_advice_prompt: it makes no call and touches nothing
GenerateDesignAdvicePrompt(search_results, user_query, context) ==
    /\ Idle
    /\ op' = "generate_design_advice_prompt"
    /\ args' = [search_results |-> search_results, user_query |-> user_query,
                context |-> context]
    /\ Deliver(Completed(DesignAdvicePrompt(search_results, user_query, context),
                         <<>>, 0))
    /\ UNCHANGED <<docs, design_embeddings, imported_count, failed_count>>

\* requests.post to the Claude API with the two prompts
ClaudeCall(system_prompt, user_prompt) ==
    [kind |-> "claude", what |-> "messages",
     params |-> [system |-> system_prompt, user |-> user_prompt],
     fetched |-> 0, error |-> ""]

ClaudeFailure == "HTTPError: Claude API call failed"
ClaudeResponse == "response.json()"

\* process_complete_query; fault = 1, 2: the embedding call, the store query
\* of the search fails, fault = 3: the call of the Claude API fails.  The
\* API is called only when call_claude is set and an API key is configured;
\* the handler around it stores the exception under claude_error and the
\* function returns the result
CompleteQueryRun(user_query, context, call_claude, api_key, fault, generated_at, timestamp) ==
    CHOOSE out \in
      {IF prompted.outcome = "error" THEN prompted
       ELSE IF ~(call_claude /\ api_key)
       THEN [prompted EXCEPT !.result = [query |-> user_query,
                                         prompt |-> prompted.result,
                                         timestamp |-> timestamp]]
       ELSE IF fault = 3
       THEN [prompted EXCEPT
               !.result = [query |-> user_query, prompt |-> prompted.result,
                           timestamp |-> timestamp,
                           claude_error |-> ClaudeFailure],
               !.calls = Append(@, Failed(ClaudeCall(prompted.result.system,
                                                     prompted.result.user),
                                          ClaudeFailure))]
       ELSE [prompted EXCEPT
               !.result = [query |-> user_query, prompt |-> prompted.result,
                           timestamp |-> timestamp,
                           claude_response |-> ClaudeResponse],
               !.calls = Append(@, ClaudeCall(prompted.result.system,
                                              prompted.result.user))] :
         prompted \in {PromptRun(user_query, SearchLimit, TRUE, context, fault,
                                  generated_at)}} : TRUE

\* api_key is the key of the configuration the call is made under
ProcessCompleteQuery(user_query, context, call_claude, api_key, fault, generated_at, timestamp) ==
    /\ Idle
    /\ generated_at <= timestamp
    /\ op' = "process_complete_query"
    /\ args' = [user_query |-> user_query, context |-> context,
                call_claude |-> call_claude, api_key |-> api_key]
    /\ \E run \in {CompleteQueryRun(user_query, context, call_claude, api_key,
                                    fault, generated_at, timestamp)} :
          Deliver(run)
    /\ UNCHANGED <<docs, design_embeddings, imported_count, failed_count>>

-----------------------------------------------------------------------------
(* The document importer *)

\* a call that raised before it reached a remote service: open() of a
\* file, the check of the required fields, the lookup of a library
LocalFailure(what, exception) ==
    [kind |-> "local", what |-> what, params |-> <<>>, fetched |-> 0,
     error |-> exception]

FileFailure == "FileNotFoundError: No such file or directory"
UnsupportedFormat == "ValueError: Unsupported JSON format"
UnsupportedLibrary == "ValueError: Unsupported library"

required_fields == <<"title", "ui_type", "content">>

MissingField ==
    "title" :> "ValueError: Missing required field: title" @@
    "ui_type" :> "ValueError: Missing required field: ui_type" @@
    "content" :> "ValueError: Missing required field: content"

\* the instructions of process_document for the main text, the content and
\* the title
DocumentInstructions ==
    <<"Represent the UI component description for semantic search",
      "Represent the UI component code/markup for technical retrieval",
      "Represent the UI component title for quick identification">>

\* a source document: the fields it has, and the vector the backend gives
\* for its main text
Document(title, ui_type, content, vector) ==
    [fields |-> {"title", "ui_type", "content"}, title |-> title,
     ui_type |-> ui_type, content |-> content, keywords |-> <<>>,
     claude_evaluation |-> Evaluation(<<>>), vector |-> vector]

\* process_document; fault = j in 1..3: the j-th embedding call fails.  The
\* three texts are embedded in turn, the handler logs and raises again
ProcessDocument(doc, fault) ==
    LET texts == <<<<doc.title, "description", doc.keywords>>, doc.content, doc.title>>
        attempted == IF fault \in 1..3 THEN fault ELSE 3
    IN [error |-> IF fault \in 1..3 THEN EmbedFailure ELSE "",
        calls |-> [j \in 1..attempted |->
                     IF j = fault
                     THEN Failed(EmbedCall(texts[j], DocumentInstructions[j]),
                                 EmbedFailure)
                     ELSE EmbedCall(texts[j], DocumentInstructions[j])],
        data |-> [title |-> doc.title, ui_type |-> doc.ui_type,
                  embedding |-> doc.vector, is_approved |-> TRUE,
                  keywords |-> doc.keywords,
                  claude_evaluation |-> doc.claude_evaluation,
                  copied_content |-> doc.content]]

\* the importer at work: the table, its two counters, the remote calls and
\* the connections of the run, the exception on its way up
Importer ==
    [docs |-> docs, imported_count |-> imported_count,
     failed_count |-> failed_count, calls |-> <<>>, opened |-> 0, raised |-> ""]

\* INSERT ... RETURNING id
InsertCall(data) == StoreCall("insert", data, <<data>>)

\* save_to_database; fault = 4: the INSERT fails.  It opens a connection
\* of its own; the handler logs and raises again
SaveToDatabase(st, data, fault) ==
    IF fault = 4
    THEN [st EXCEPT !.calls = Append(@, Failed(InsertCall(data), StoreFailure)),
                    !.opened = @ + 1,
                    !.raised = StoreFailure]
    ELSE [st EXCEPT !.docs = Append(@, [id |-> Len(st.docs) + 1,
                                        title |-> data.title,
                                        ui_type |-> data.ui_type,
                                        embedding |-> data.embedding,
                                        is_approved |-> data.is_approved,
                                        keywords |-> data.keywords,
                                        claude_evaluation |-> data.claude_evaluation,
                                        copied_content |-> data.copied_content]),
                    !.calls = Append(@, InsertCall(data)),
                    !.opened = @ + 1]

\* process_document, save_to_database, imported_count += 1: the tail of
\* _import_markdown_file and of _import_json_document
StoreDocument(st, doc, fault) ==
    LET processed == ProcessDocument(doc, fault)
        called == [st EXCEPT !.calls = @ \o processed.calls]
        saved == SaveToDatabase(called, processed.data, fault)
    IN IF processed.error # "" THEN [called EXCEPT !.raised = processed.error]
       ELSE IF saved.raised # "" THEN saved
       ELSE [saved EXCEPT !.imported_count = @ + 1]

\* _extract_ui_type_from_path; a path is the set of the words it contains
ExtractUiType(path) ==
    IF "navigation" \in path \/ "nav" \in path THEN "navigation"
    ELSE IF "form" \in path \/ "input" \in path THEN "form"
    ELSE IF "card" \in path THEN "card"
    ELSE IF "button" \in path THEN "button"
    ELSE IF "modal" \in path \/ "dialog" \in path THEN "modal"
    ELSE IF "table" \in path \/ "grid" \in path THEN "table"
    ELSE IF "chart" \in path \/ "graph" \in path THEN "chart"
    ELSE "component"

\* _import_markdown_file: open() raises for a file that cannot be read; the
\* keywords are those of the path, the evaluation is a fixed one
ImportMarkdownFile(st, file, fault) ==
    IF ~file.readable
    THEN [st EXCEPT !.calls = Append(@, LocalFailure("open", FileFailure)),
                    !.raised = FileFailure]
    ELSE StoreDocument(st,
                       [Document(file.stem, ExtractUiType(file.path), file.content,
                                 file.vector)
                          EXCEPT !.keywords = file.keywords,
                                 !.claude_evaluation = Evaluation(<<"structure">>)],
                       fault)

\* the first required field a document lacks, "" when it has them all
FirstMissing(doc) ==
    IF \A j \in DOMAIN required_fields : required_fields[j] \in doc.fields THEN ""
    ELSE required_fields[CHOOSE j \in DOMAIN required_fields :
                            /\ required_fields[j] \notin doc.fields
                            /\ \A k \in 1..(j - 1) : required_fields[k] \in doc.fields]

\* _import_json_document
ImportJsonDocument(st, doc, fault) ==
    IF FirstMissing(doc) # ""
    THEN [st EXCEPT !.calls = Append(@, LocalFailure("required_fields",
                                                     MissingField[FirstMissing(doc)])),
                    !.raised = MissingField[FirstMissing(doc)]]
    ELSE StoreDocument(st, doc, fault)

\* a handler that logs the failure and does not count it
HandledUncounted(tried) == [tried EXCEPT !.raised = ""]

\* except Exception: failed_count += 1, and the loop goes on
Handled(tried) ==
    IF tried.raised # ""
    THEN [tried EXCEPT !.failed_count = @ + 1, !.raised = ""]
    ELSE tried

\* the loop of import_from_markdown_files from file i on
RECURSIVE ImportFiles(_, _, _, _)
ImportFiles(st, md_files, faults, i) ==
    IF i > Len(md_files) THEN st
    ELSE CHOOSE out \in
           {ImportFiles(Handled(tried), md_files, faults, i + 1) :
              tried \in {ImportMarkdownFile(st, md_files[i], faults[i])}} : TRUE

\* the loop of import_from_json_file and of import_ui_component_library
\* from document i on
RECURSIVE ImportDocuments(_, _, _, _)
ImportDocuments(st, documents, faults, i) ==
    IF i > Len(documents) THEN st
    ELSE CHOOSE out \in
           {ImportDocuments(Handled(tried), documents, faults, i + 1) :
              tried \in {ImportJsonDocument(st, documents[i], faults[i])}} : TRUE

\* the import has ended: the table and the counters are as it left them,
\* and it returns None or raises
Finish(st) ==
    /\ docs' = st.docs
    /\ imported_count' = st.imported_count
    /\ failed_count' = st.failed_count
    /\ Deliver(IF st.raised # ""
               THEN Failing(st.raised, st.calls, st.opened, 0)
               ELSE Completed(<<>>, st.calls, st.opened))

\* an import starts while the importer has attempted, with the documents of
\* the new run, no more than MaxItems documents
Room(n) == Idle /\ imported_count + failed_count + n <= MaxItems

\* import_from_markdown_files: md_files are the files glob found, faults
\* the fault of the backend or the store while each of them is imported
ImportFromMarkdownFiles(md_files, faults) ==
    /\ Room(Len(md_files))
    /\ op' = "import_from_markdown_files"
    /\ args' = [md_files |-> md_files]
    /\ \E st \in {ImportFiles(Importer, md_files, faults, 1)} : Finish(st)
    /\ UNCHANGED design_embeddings

\* import_from_json_file: open() and json.load raise for a file that cannot
\* be read or parsed, a value that is neither a list nor a dict with the
\* key documents raises ValueError; neither is handled
ImportFromJsonFile(json_file, faults) ==
    /\ Room(Len(json_file.documents))
    /\ op' = "import_from_json_file"
    /\ args' = [json_file |-> json_file]
    /\ \E st \in {IF ~json_file.readable
                  THEN [Importer EXCEPT
                          !.calls = <<LocalFailure("open", FileFailure)>>,
                          !.raised = FileFailure]
                  ELSE IF json_file.format \notin {"list", "documents"}
                  THEN [Importer EXCEPT
                          !.calls = <<LocalFailure("format", UnsupportedFormat)>>,
                          !.raised = UnsupportedFormat]
                  ELSE ImportDocuments(Importer, json_file.documents, faults, 1)} :
          Finish(st)
    /\ UNCHANGED design_embeddings

\* str.lower() of the library names of the model
Lower ==
    "bootstrap" :> "bootstrap" @@ "Bootstrap" :> "bootstrap" @@
    "Tailwind" :> "tailwind" @@ "material-ui" :> "material-ui" @@
    "ant-design" :> "ant-design" @@ "chakra" :> "chakra"

\* the predefined components of the four libraries
component_libraries ==
    "bootstrap" :> <<Document("Bootstrap Alert Component", "alert", Text(31, 1), 0),
                     Document("Bootstrap Navbar", "navigation", Text(32, 1), 1)>> @@
    "material-ui" :> <<Document("Material-UI Button", "button", Text(33, 1), 2)>> @@
    "tailwind" :> <<Document("Tailwind CSS Card", "card", Text(34, 1), 3)>> @@
    "ant-design" :> <<Document("Ant Design Table", "table", Text(35, 1), 0)>>

\* the components of a library, none for a name that is not one
Components(library_name) ==
    IF Lower[library_name] \in DOMAIN component_libraries
    THEN component_libraries[Lower[library_name]]
    ELSE <<>>

\* import_ui_component_library: a name that is not a library raises
\* ValueError, which is not handled
ImportUiComponentLibrary(library_name, faults) ==
    /\ Room(Len(Components(library_name)))
    /\ op' = "import_ui_component_library"
    /\ args' = [library_name |-> library_name]
    /\ \E st \in {IF Lower[library_name] \notin DOMAIN component_libraries
                  THEN [Importer EXCEPT
                          !.calls = <<LocalFailure("component_libraries",
                                                   UnsupportedLibrary)>>,
                          !.raised = UnsupportedLibrary]
                  ELSE ImportDocuments(Importer, Components(library_name),
                                       faults, 1)} :
          Finish(st)
    /\ UNCHANGED design_embeddings

\* the dict of get_import_summary
ImportSummary ==
    [imported |-> imported_count, failed |-> failed_count,
     total |-> imported_count + failed_count]

\* get_import_summary: it reads the two counters
GetImportSummary ==
    /\ Idle
    /\ op' = "get_import_summary"
    /\ args' = <<>>
    /\ Deliver(Completed(ImportSummary, <<>>, 0))
    /\ UNCHANGED <<docs, design_embeddings, imported_count, failed_count>>

-----------------------------------------------------------------------------
(* The pipeline and the importer as a state machine *)

\* the faults of one document: none, the j-th embedding call, the INSERT
DocumentFaults == 0..4

\* the faults tried on the documents of longer runs
SomeFaults == {0, 2, 4}

\* a file: the words of its path, those of them _extract_keywords_from_path
\* keeps, in the order it gives them, its stem as a title, its content
MarkdownFiles ==
    {[path |-> {"docs", "nav", "button"}, keywords |-> <<"docs", "nav", "button">>,
      stem |-> "Nav Button", readable |-> TRUE,
      content |-> Text(21, ExcerptLength + 1), vector |-> 0],
     [path |-> {"docs", "dialog"}, keywords |-> <<"docs", "dialog">>,
      stem |-> "Dialog", readable |-> FALSE,
      content |-> Text(22, 1), vector |-> 2]}

JsonDocuments ==
    {Document("Login Form", "form", Text(23, ExcerptLength), 1),
     [Document("Untitled", "card", Text(24, 1), 3) EXCEPT !.fields = {"ui_type"}]}

ItemLists(items) == UNION {[1..n -> items] : n \in 0..MaxItems}
FaultLists(n, faults) == [1..n -> faults]

JsonFiles ==
    {[readable |-> TRUE, format |-> format, documents |-> documents] :
        format \in {"list", "documents"}, documents \in ItemLists(JsonDocuments)}
    \cup {[readable |-> FALSE, format |-> "list", documents |-> <<>>],
          [readable |-> TRUE, format |-> "other", documents |-> <<>>]}

LibraryNames == DOMAIN Lower

PipelineInit ==
    /\ \E n \in {0, 3}, unapp \in {0, 1} :
          /\ docs = MkDocs(n, 1, unapp)
          /\ design_embeddings = MkDesign(n, 1)
    /\ op = "none"
    /\ args = <<>>
    /\ outcome = "none"
    /\ error = ""
    /\ result = <<>>
    /\ calls = <<>>
    /\ connections = NoConnections
    /\ served = 0
    /\ imported_count = 0
    /\ failed_count = 0

\* a result list a caller may hand to generate_design_advice_prompt: one
\* that search_with_filters returns
ResultList(query, limit, include_content) ==
    FilterQuery(Embed(query), None, 0, limit, include_content)

PipelineNext ==
    \/ \E user_query \in QueryTexts, search_limit \in Limits,
          include_code \in BOOLEAN, generated_at \in Clock :
          GenerateComprehensivePrompt(user_query, search_limit, include_code,
                                      NoContext, 0, generated_at)
    \/ \E user_query \in QueryTexts, context \in Contexts \ {NoContext} :
          GenerateComprehensivePrompt(user_query, SearchLimit, TRUE, context, 0, 1)
    \/ \E user_query \in QueryTexts, fault \in 1..2 :
          GenerateComprehensivePrompt(user_query, SearchLimit, TRUE, NoContext,
                                      fault, 1)
    \/ \E query \in QueryTexts, limit \in Limits, include_content \in BOOLEAN,
          context \in Contexts :
          GenerateDesignAdvicePrompt(ResultList(query, limit, include_content),
                                     query, context)
    \/ \E user_query \in QueryTexts, context \in Contexts,
          call_claude \in BOOLEAN, api_key \in BOOLEAN :
          ProcessCompleteQuery(user_query, context, call_claude, api_key, 0, 1, 1)
    \/ \E user_query \in QueryTexts, generated_at \in Clock, timestamp \in Clock :
          ProcessCompleteQuery(user_query, NoContext, FALSE, FALSE, 0,
                               generated_at, timestamp)
    \/ \E user_query \in QueryTexts, call_claude \in BOOLEAN, fault \in 1..3 :
          ProcessCompleteQuery(user_query, NoContext, call_claude, TRUE, fault,
                               1, 1)
    \/ \E md_files \in ItemLists(MarkdownFiles) :
          \E faults \in FaultLists(Len(md_files), SomeFaults) :
             ImportFromMarkdownFiles(md_files, faults)
    \/ \E md_file \in MarkdownFiles, fault \in DocumentFaults :
          ImportFromMarkdownFiles(<<md_file>>, <<fault>>)
    \/ \E json_file \in JsonFiles :
          \E faults \in FaultLists(Len(json_file.documents), SomeFaults) :
             ImportFromJsonFile(json_file, faults)
    \/ \E library_name \in LibraryNames :
          \E faults \in FaultLists(Len(Components(library_name)), DocumentFaults) :
             ImportUiComponentLibrary(library_name, faults)
    \/ GetImportSummary
    \/ Discard

PipelineSpec == PipelineInit /\ [][PipelineNext]_vars

-----------------------------------------------------------------------------
(* The system tester: run_all_tests and main *)

\* the list of run_all_tests, in its order
tests ==
    <<"Model Loading", "Embedding Generation", "Database Connection",
      "Document Processing", "Search Functionality", "Claude Integration",
      "Performance Metrics">>

\* what happens to a test whose body runs: it goes through, it fails inside
\* its try block, or an exception leaves the test after its body failed
Environments == {"ok", "fails", "raises"}

\* return True, return False, or an exception
Verdict(env) ==
    CASE env = "ok" -> "True"
      [] env = "fails" -> "False"
      [] OTHER -> "raise"

\* __init__, and the locals of run_all_tests and of main: the components
\* are None, no test has run, nothing is logged
NewTester ==
    [embedder |-> FALSE, processor |-> FALSE, advanced_searcher |-> FALSE,
     ran |-> <<>>, passed_tests |-> 0, log |-> <<>>,
     summary |-> <<>>, exit_code |-> <<>>]

\* test_model_loading: self.embedder is set when the model has loaded
TestModelLoading(t, env) ==
    [tester |-> IF env = "ok" THEN [t EXCEPT !.embedder = TRUE] ELSE t,
     verdict |-> Verdict(env)]

\* test_embedding_generation: if not self.embedder: return False
TestEmbeddingGeneration(t, env) ==
    [tester |-> t, verdict |-> IF ~t.embedder THEN "False" ELSE Verdict(env)]

\* test_database_connection: without an embedder it returns False; else
\* self.processor is set before the connection is tried
TestDatabaseConnection(t, env) ==
    IF ~t.embedder THEN [tester |-> t, verdict |-> "False"]
    ELSE [tester |-> [t EXCEPT !.processor = TRUE], verdict |-> Verdict(env)]

\* test_document_processing: if not self.processor: return False
TestDocumentProcessing(t, env) ==
    [tester |-> t, verdict |-> IF ~t.processor THEN "False" ELSE Verdict(env)]

\* test_search_functionality: without a processor it returns False; else
\* self.advanced_searcher is set before the queries are tried
TestSearchFunctionality(t, env) ==
    IF ~t.processor THEN [tester |-> t, verdict |-> "False"]
    ELSE [tester |-> [t EXCEPT !.advanced_searcher = TRUE], verdict |-> Verdict(env)]

\* test_claude_integration: if not self.advanced_searcher: return False
TestClaudeIntegration(t, env) ==
    [tester |-> t, verdict |-> IF ~t.advanced_searcher THEN "False" ELSE Verdict(env)]

\* test_performance_metrics: if not self.embedder: return False
TestPerformanceMetrics(t, env) ==
    [tester |-> t, verdict |-> IF ~t.embedder THEN "False" ELSE Verdict(env)]

\* test_func(), for the entry of the list with this name
TestFunc(test_name, t, env) ==
    CASE test_name = "Model Loading" -> TestModelLoading(t, env)
      [] test_name = "Embedding Generation" -> TestEmbeddingGeneration(t, env)
      [] test_name = "Database Connection" -> TestDatabaseConnection(t, env)
      [] test_name = "Document Processing" -> TestDocumentProcessing(t, env)
      [] test_name = "Search Functionality" -> TestSearchFunctionality(t, env)
      [] test_name = "Claude Integration" -> TestClaudeIntegration(t, env)
      [] OTHER -> TestPerformanceMetrics(t, env)

\* the line the loop logs for a test
Logged(verdict) ==
    CASE verdict = "True" -> "PASSED"
      [] verdict = "False" -> "FAILED"
      [] OTHER -> "ERROR"

\* a status that is 'success' as soon as a test has passed
OverallStatusAnyPass(passed_tests, total_tests) ==
    IF passed_tests > 0 THEN "success" ELSE "failed"

\* 'success' if passed_tests == total_tests else 'partial' if
\* passed_tests > 0 else 'failed'
OverallStatus(passed_tests, total_tests) ==
    IF passed_tests = total_tests THEN "success"
    ELSE IF passed_tests > 0 THEN "partial"
    ELSE "failed"

\* the summary of run_all_tests: its counts and its status (the rate, the
\* details of the tests and the time are left out)
Summary(passed_tests, total_tests) ==
    [total_tests |-> total_tests, passed_tests |-> passed_tests,
     failed_tests |-> total_tests - passed_tests,
     overall_status |-> OverallStatus(passed_tests, total_tests)]

\* the value main returns: open() or json.dump raising on the --output file
\* is caught by main's handler, which returns 3
ExitCode(results, output) ==
    IF output.given /\ ~output.writable THEN 3
    ELSE CASE results.overall_status = "success" -> 0
           [] results.overall_status = "partial" -> 1
           [] OTHER -> 2

\* main makes the tester and calls run_all_tests
Main(output) ==
    /\ Idle /\ op = "none"
    /\ op' = "main"
    /\ args' = [output |-> output]
    /\ outcome' = "running"
    /\ result' = NewTester
    /\ UNCHANGED <<docs, design_embeddings, error, calls, connections, served, imported_count, failed_count>>

\* one turn of the loop of run_all_tests: the next test of the list runs,
\* whatever the tests before it did
RunTest(env) ==
    /\ op = "main" /\ outcome = "running"
    /\ Len(result.ran) < Len(tests)
    /\ \E test_name \in {tests[Len(result.ran) + 1]} :
          \E run \in {TestFunc(test_name, result, env)} :
             result' = [run.tester EXCEPT
                          !.ran = Append(@, test_name),
                          !.passed_tests = IF run.verdict = "True" THEN @ + 1 ELSE @,
                          !.log = Append(@, Logged(run.verdict))]
    /\ UNCHANGED <<docs, design_embeddings, op, args, outcome, error, calls, connections, served, imported_count, failed_count>>

\* the loop is over: run_all_tests builds the summary and returns it
RunAllTestsReturns ==
    /\ op = "main" /\ outcome = "running"
    /\ Len(result.ran) = Len(tests)
    /\ result.summary = <<>>
    /\ result' = [result EXCEPT !.summary = <<Summary(result.passed_tests, Len(tests))>>]
    /\ UNCHANGED <<docs, design_embeddings, op, args, outcome, error, calls, connections, served, imported_count, failed_count>>

\* main writes the results where it was asked to and returns the exit code
MainReturns ==
    /\ op = "main" /\ outcome = "running"
    /\ result.summary # <<>>
    /\ outcome' = "ok"
    /\ result' = [result EXCEPT !.exit_code = <<ExitCode(result.summary[1], args.output)>>]
    /\ UNCHANGED <<docs, design_embeddings, op, args, error, calls, connections, served, imported_count, failed_count>>

\* no --output, a file that is written, a file that cannot be written
Outputs ==
    {[given |-> FALSE, writable |-> FALSE], [given |-> TRUE, writable |-> TRUE],
     [given |-> TRUE, writable |-> FALSE]}

TesterInit ==
    /\ docs = <<>>
    /\ design_embeddings = <<>>
    /\ op = "none"
    /\ args = <<>>
    /\ outcome = "none"
    /\ error = ""
    /\ result = <<>>
    /\ calls = <<>>
    /\ connections = NoConnections
    /\ served = 0
    /\ imported_count = 0
    /\ failed_count = 0

TesterNext ==
    \/ \E output \in Outputs : Main(output)
    \/ \E env \in Environments : RunTest(env)
    \/ RunAllTestsReturns
    \/ MainReturns

TesterSpec == TesterInit /\ [][TesterNext]_vars

-----------------------------------------------------------------------------
(* Properties *)

Returned(name) == op = name /\ outcome = "ok"
Raised(name) == op = name /\ outcome = "error"

\* the stored rows with a given id
Stored(id) == {i \in DOMAIN docs : docs[i].id = id}

\* C1: find_similar_components(reference_doc_id, limit) never returns a row
\* whose id is reference_doc_id, whatever the store holds, also when the
\* reference document is approved and so is its own nearest neighbour.
C1_ReferenceExcluded ==
    Returned("find_similar_components") =>
        \A i \in DOMAIN result : result[i].id # args.reference_doc_id

\* an approved reference document, which the approval filter alone would
\* rank first at similarity 1.0, and a result that filled the limit
C1_Witness ==
    /\ Returned("find_similar_components")
    /\ \E i \in Stored(args.reference_doc_id) : docs[i].is_approved
    /\ Len(result) = args.limit
    /\ result[1].similarity = One

\* C2: find_similar_components with an id that is not in the store raises
\* the not-found error (it does not return, so never an empty list), and the
\* lookup of the reference document is the only store query of the call:
\* the nearest-neighbour query is not issued.  (The store answers the
\* lookup: a lookup that fails raises the store's error.)
C2_MissingReferenceRaises ==
    (op = "find_similar_components" /\ Stored(args.reference_doc_id) = {}
        /\ calls[1].error = "") =>
        /\ outcome = "error"
        /\ error = "ValueError: Document not found"
        /\ Len(calls) = 1
        /\ calls[1].kind = "store" /\ calls[1].what = "lookup"
        /\ \A i \in DOMAIN calls : calls[i].what # "neighbors"

\* a missing id asked of a store that holds approved documents, so that a
\* neighbour query, had it run, would have returned rows
C2_Witness ==
    /\ Raised("find_similar_components")
    /\ Stored(args.reference_doc_id) = {}
    /\ calls[1].error = ""
    /\ \E i \in DOMAIN docs : docs[i].is_approved
    /\ calls[1].fetched = 0

\* C3: every row of a thresholded nearest-neighbour search
\* (search_with_filters with min_score = t, search_similar_embeddings with
\* similarity_threshold = t, t in [0,1]) has similarity not below t, and the
\* threshold is a parameter of the store query: the rows returned are the
\* rows the store fetched, none dropped on the client.
C3_ThresholdAtStore ==
    /\ Returned("search_with_filters") =>
          /\ \A i \in DOMAIN result : result[i].similarity >= args.min_score
          /\ calls[2].kind = "store"
          /\ calls[2].params.min_score = args.min_score
          /\ Len(result) = calls[2].fetched
    /\ Returned("search_similar_embeddings") =>
          /\ \A i \in DOMAIN result : result[i].similarity >= args.similarity_threshold
          /\ calls[2].kind = "store"
          /\ calls[2].params.similarity_threshold = args.similarity_threshold
          /\ Len(result) = calls[2].fetched

\* a positive threshold that kept an approved document out of a result the
\* limit had room for
C3_Witness ==
    /\ Returned("search_with_filters")
    /\ args.min_score > 0
    /\ result # <<>>
    /\ Len(result) < args.limit
    /\ ~args.ui_types.given
    /\ \E i \in DOMAIN docs :
          /\ docs[i].is_approved
          /\ Similarity(docs[i].embedding, Embed(args.query)) < args.min_score

\* the similarities of a list never go up
NonIncreasing(rows) ==
    \A i \in 1..(Len(rows) - 1) : rows[i].similarity >= rows[i + 1].similarity

\* C4: the list returned by search_with_filters, multi_query_search,
\* semantic_category_search and find_similar_components is ordered so that
\* each element's similarity is at least that of the element after it; for
\* multi_query_search the similarity is the aggregated one.
C4_SortedDescending ==
    (outcome = "ok" /\ op \in {"search_with_filters", "multi_query_search",
                               "semantic_category_search", "find_similar_components"})
        => NonIncreasing(result)

\* a merged list of several sub-queries whose aggregated similarities differ,
\* and whose first row is not the first row the first sub-query returned
C4_Witness ==
    /\ Returned("multi_query_search")
    /\ Len(args.queries) >= 2
    /\ Len(result) >= 3
    /\ result[1].similarity > result[Len(result)].similarity
    /\ \E first \in {SimilarDocuments(args.queries[1], CandidateLimit,
                                       Pct(DefaultMinSimilarityPct))} :
          first # <<>> /\ first[1].id # result[1].id

-----------------------------------------------------------------------------
(* Properties of the merge of multi_query_search *)

\* what each sub-query of the last multi_query_search returned
SubQueryRows(queries) ==
    [i \in DOMAIN queries |->
        SimilarDocuments(queries[i], CandidateLimit, Pct(DefaultMinSimilarityPct))]

\* the weight given for query i, 1.0 when no weights are given
GivenWeight(i) ==
    IF args.weights.given /\ args.weights.list # <<>>
    THEN args.weights.list[i] ELSE WScale

\* similarity times weight of a document in each sub-query that returned
\* it, in the order of the queries
RECURSIVE OccurrencesFrom(_, _, _)
OccurrencesFrom(hits, id, i) ==
    IF i > Len(hits) THEN <<>>
    ELSE LET at == {j \in DOMAIN hits[i] : hits[i][j].id = id}
         IN (IF at = {} THEN <<>>
             ELSE <<(hits[i][CHOOSE j \in at : TRUE].similarity * GivenWeight(i))
                      \div WScale>>)
            \o OccurrencesFrom(hits, id, i + 1)

Occurrences(hits, id) == OccurrencesFrom(hits, id, 1)

RECURSIVE SumSeq(_)
SumSeq(v) == IF v = <<>> THEN 0 ELSE v[1] + SumSeq(Tail(v))

RECURSIVE MaxSeq(_)
MaxSeq(v) == IF Len(v) = 1 THEN v[1] ELSE Max(v[1], MaxSeq(Tail(v)))

\* m becomes (m + v) / 2 at each further occurrence v
RECURSIVE TwoTermMean(_, _, _)
TwoTermMean(v, i, m) ==
    IF i > Len(v) THEN m ELSE TwoTermMean(v, i + 1, (m + v[i]) \div 2)

MeanInOrder(v) == TwoTermMean(v, 2, v[1])

Reverse(v) == [i \in 1..Len(v) |-> v[Len(v) + 1 - i]]

\* the ids returned by at least one sub-query
ReturnedIds(hits) ==
    UNION {{hits[i][j].id : j \in DOMAIN hits[i]} : i \in DOMAIN hits}

\* C5: with aggregation 'weighted' the merged similarity of a document is
\* the sum, over the sub-queries that returned it, of similarity times weight
\* (s1*w1 + s2*w2 for two queries); the sum may exceed 1.0.
C5_WeightedIsSum ==
    (Returned("multi_query_search") /\ args.aggregation = "weighted") =>
        \A hits \in {SubQueryRows(args.queries)} :
            \A k \in DOMAIN result :
                result[k].similarity = SumSeq(Occurrences(hits, result[k].id))

\* two queries with given weights return the same document, and its merged
\* similarity s1*w1 + s2*w2 is above 1.0
C5_Witness ==
    /\ Returned("multi_query_search") /\ args.aggregation = "weighted"
    /\ Len(args.queries) = 2
    /\ args.weights.given /\ args.weights.list # <<>>
    /\ \E hits \in {SubQueryRows(args.queries)} :
          \E k \in DOMAIN result :
             \E occ \in {Occurrences(hits, result[k].id)} :
                /\ Len(occ) = 2
                /\ result[k].similarity = occ[1] + occ[2]
                /\ result[k].similarity > One

\* C6: with aggregation 'max' the merged similarity of a document is the
\* maximum, over the sub-queries that returned it, of similarity times
\* weight, for any number of sub-queries and any weights, the default weight
\* 1.0 of a call without weights included.
C6_MaxIsMaximum ==
    (Returned("multi_query_search") /\ args.aggregation = "max") =>
        \A hits \in {SubQueryRows(args.queries)} :
            \A k \in DOMAIN result :
                result[k].similarity = MaxSeq(Occurrences(hits, result[k].id))

\* a document returned by three sub-queries whose largest weighted
\* similarity is not the first one seen
C6_Witness ==
    /\ Returned("multi_query_search") /\ args.aggregation = "max"
    /\ \E hits \in {SubQueryRows(args.queries)} :
          \E k \in DOMAIN result :
             \E occ \in {Occurrences(hits, result[k].id)} :
                /\ Len(occ) = 3
                /\ result[k].similarity > occ[1]

\* the same, for a call without weights: the maximum of the plain
\* similarities
C6_WitnessDefaultWeight ==
    /\ Returned("multi_query_search") /\ args.aggregation = "max"
    /\ ~args.weights.given
    /\ \E hits \in {SubQueryRows(args.queries)} :
          \E k \in DOMAIN result :
             \E occ \in {Occurrences(hits, result[k].id)} :
                /\ Len(occ) >= 2
                /\ result[k].similarity > occ[1]

\* C7: with aggregation 'mean' each further occurrence of a document
\* replaces its merged similarity m by (m + s*w)/2: a document seen in three
\* sub-queries with weighted similarities a, b, c in that order ends with
\* ((a+b)/2 + c)/2, which is not (a+b+c)/3 in general and depends on the
\* order of the queries.
C7_MeanIsTwoTermAverage ==
    (Returned("multi_query_search") /\ args.aggregation = "mean") =>
        \A hits \in {SubQueryRows(args.queries)} :
            \A k \in DOMAIN result :
                result[k].similarity = MeanInOrder(Occurrences(hits, result[k].id))

\* a document seen three times whose merged similarity is neither the
\* arithmetic mean of the three nor what the reverse order would give
C7_Witness ==
    /\ Returned("multi_query_search") /\ args.aggregation = "mean"
    /\ \E hits \in {SubQueryRows(args.queries)} :
          \E k \in DOMAIN result :
             \E occ \in {Occurrences(hits, result[k].id)} :
                /\ Len(occ) = 3
                /\ 4 * result[k].similarity = (occ[1] + occ[2]) + 2 * occ[3]
                /\ 3 * result[k].similarity # occ[1] + occ[2] + occ[3]
                /\ result[k].similarity # MeanInOrder(Reverse(occ))

\* the merged similarity the aggregation policy gives to occurrences
Merged(aggregation, occ) ==
    CASE aggregation = "max" -> MaxSeq(occ)
      [] aggregation = "mean" -> MeanInOrder(occ)
      [] aggregation = "weighted" -> SumSeq(occ)
      [] OTHER -> occ[1]

\* C8: multi_query_search returns exactly min(10, number of distinct
\* document ids returned by any sub-query) results, and no document left out
\* of the list has an aggregated similarity strictly greater than that of a
\* document in the list.
C8_TopTenOfMerged ==
    Returned("multi_query_search") =>
        \A hits \in {SubQueryRows(args.queries)} :
            /\ Len(result) = Min(TopN, Cardinality(ReturnedIds(hits)))
            /\ \A id \in ReturnedIds(hits) \ {result[k].id : k \in DOMAIN result} :
                  \A k \in DOMAIN result :
                     Merged(args.aggregation, Occurrences(hits, id))
                        <= result[k].similarity

\* more than ten documents were found, the list holds ten, and a document
\* left out was found by the first sub-query while one kept was not
C8_Witness ==
    /\ Returned("multi_query_search")
    /\ Len(result) = TopN
    /\ \E hits \in {SubQueryRows(args.queries)} :
          /\ Cardinality(ReturnedIds(hits)) > TopN
          /\ Len(hits) >= 2
          /\ \E j \in DOMAIN hits[1] : \A k \in DOMAIN result : result[k].id # hits[1][j].id
          /\ \E k \in DOMAIN result : \A j \in DOMAIN hits[1] : result[k].id # hits[1][j].id

\* C9: every document id appears at most once in the list returned by
\* multi_query_search, however many sub-queries returned the document and
\* whatever the aggregation string, one that is none of 'max', 'mean',
\* 'weighted' included.
C9_IdsUnique ==
    Returned("multi_query_search") =>
        \A i, j \in DOMAIN result : result[i].id = result[j].id => i = j

\* an aggregation string outside the three, and a document that three
\* sub-queries returned
C9_Witness ==
    /\ Returned("multi_query_search")
    /\ args.aggregation \notin {"max", "mean", "weighted"}
    /\ \E hits \in {SubQueryRows(args.queries)} :
          \E k \in DOMAIN result : Len(Occurrences(hits, result[k].id)) = 3

-----------------------------------------------------------------------------
(* Properties of semantic_category_search *)

\* the single-query search that a sub-query of multi_query_search makes
SingleQuery(text) ==
    SimilarDocuments(text, CandidateLimit, Pct(DefaultMinSimilarityPct))

\* the documents of a list with their similarities
Scored(rows) == {<<rows[i].id, rows[i].similarity>> : i \in DOMAIN rows}

\* the call made one sub-query, on the text of the category name
OneSubQueryOnName ==
    /\ Len(calls) = 2
    /\ calls[1].kind = "embed" /\ calls[1].what = args.category
    /\ calls[2].kind = "store" /\ calls[2].what = "search_rag_instructor"

\* C10 as stated: semantic_category_search with a category name that is not
\* mapped issues exactly one sub-query whose text is that name, and its
\* result holds the same documents with the same similarities as a
\* single-query search for that name.
C10_SameAsSingleQuery ==
    (Returned("semantic_category_search")
        /\ args.category \notin DOMAIN category_queries) =>
        /\ OneSubQueryOnName
        /\ Scored(result) = Scored(SingleQuery(args.category))

\* C10 as amended: semantic_category_search with a category name that is not
\* mapped issues exactly one sub-query whose text is that name, and its
\* result is the first ten rows of the single-query search for that name
\* (limit 20, minimum similarity 0.7), with the same similarities in the
\* same order; it holds all of that search's rows only when there are at
\* most ten.
C10_TopTenOfSingleQuery ==
    (Returned("semantic_category_search")
        /\ args.category \notin DOMAIN category_queries) =>
        /\ OneSubQueryOnName
        /\ result = Limit(SingleQuery(args.category), TopN)
        /\ (Len(SingleQuery(args.category)) <= TopN
               => Scored(result) = Scored(SingleQuery(args.category)))

\* an unmapped name whose single-query search finds more than ten rows
C10_Witness ==
    /\ Returned("semantic_category_search")
    /\ args.category \notin DOMAIN category_queries
    /\ Len(SingleQuery(args.category)) > TopN
    /\ Len(result) = TopN

-----------------------------------------------------------------------------
(* Properties of validation, failures, connections and call counts *)

\* C11: multi_query_search called with a weights sequence whose length
\* differs from the number of queries (shorter or longer) is rejected with a
\* validation error before any embedding call or store query is made, so no
\* sub-query has run when the error is raised.
C11_MismatchedWeightsRejected ==
    (op = "multi_query_search" /\ args.weights.given
        /\ Len(args.weights.list) # Len(args.queries)) =>
        /\ outcome = "error"
        /\ calls = <<>>

\* an empty query, a negative limit, or a threshold outside [0, 1]
Malformed(query, limit, threshold) ==
    query = "" \/ limit < 0 \/ threshold < 0 \/ threshold > One

\* C12: a search called with an empty query, a negative limit, or a minimum
\* similarity outside [0,1] is rejected with a validation error before the
\* embedding provider or the store is called, for search_similar_documents
\* and for search_with_filters.
C12_MalformedRejected ==
    /\ (op = "search_similar_documents"
          /\ Malformed(args.query, args.limit, args.min_similarity)) =>
          (outcome = "error" /\ calls = <<>>)
    /\ (op = "search_with_filters"
          /\ Malformed(args.query, args.limit, args.min_score)) =>
          (outcome = "error" /\ calls = <<>>)

\* C13: if the embedding call or the store query of a search fails, the
\* searcher call fails with that error and returns no result list; in
\* multi_query_search the failure of the k-th sub-query is the failure of
\* the whole call, it is the last remote call made, and nothing merged from
\* the sub-queries 1..k-1 is returned.
C13_FailurePropagates ==
    \A i \in DOMAIN calls :
        calls[i].error # "" =>
            /\ outcome = "error"
            /\ error = calls[i].error
            /\ result = <<>>
            /\ i = Len(calls)

\* the store query of the second sub-query failed after the first sub-query
\* had returned rows
C13_Witness ==
    /\ Raised("multi_query_search")
    /\ Len(calls) = 4
    /\ calls[2].fetched > 0
    /\ calls[4].error = StoreFailure
    /\ error = StoreFailure

\* the connections of the last call that are open when it ends: on a
\* runtime that finalizes an object when its last reference goes, those the
\* raised exception still refers to; on another runtime, all it opened
StillOpen(finalizes_at_once) ==
    IF finalizes_at_once THEN connections.held ELSE connections.opened

\* C15: every store connection opened by a search operation is closed by
\* the time the operation returns or raises, on the success path and on
\* every error path: no connection is open when a call has ended.
C15_ConnectionsReleased ==
    \A finalizes_at_once \in BOOLEAN : StillOpen(finalizes_at_once) = 0

EmbedCalls == {i \in DOMAIN calls : calls[i].kind = "embed"}
StoreCalls == {i \in DOMAIN calls : calls[i].kind = "store"}

\* C20: every call of search_similar_documents performs exactly one
\* embedding call, of the query under the fixed retrieval instruction, and
\* then at most one store query; the store query is not issued when the
\* embedding call fails; n calls in a row with the same query perform n
\* embedding calls and, when no embedding fails, n store queries.
C20_OneEmbeddingThenOneQuery ==
    op = "search_similar_documents" =>
        /\ Cardinality(EmbedCalls) = served
        /\ \A i \in EmbedCalls :
              /\ calls[i].what = args.query
              /\ calls[i].params.instruction = RetrievalInstruction
        /\ Cardinality(StoreCalls)
              = served - Cardinality({i \in EmbedCalls : calls[i].error # ""})
        /\ \A i \in StoreCalls :
              i > 1 /\ calls[i - 1].kind = "embed" /\ calls[i - 1].error = ""

\* the same search made twice in a row: two embedding calls and two store
\* queries that fetched rows
C20_Witness ==
    /\ Returned("search_similar_documents")
    /\ served = 2
    /\ Len(calls) = 4
    /\ calls[3].kind = "embed" /\ calls[3].what = calls[1].what
    /\ calls[4].kind = "store" /\ calls[4].fetched = calls[2].fetched
    /\ result # <<>>

-----------------------------------------------------------------------------
(* Properties of the filters of the searches *)

\* C21: no row returned by search_with_filters or by find_similar_components
\* belongs to a document whose approval flag is false: every returned id is
\* the id of a stored document that is approved.
C21_OnlyApproved ==
    (Returned("search_with_filters") \/ Returned("find_similar_components")) =>
        \A i \in DOMAIN result :
            /\ Stored(result[i].id) # {}
            /\ \A k \in Stored(result[i].id) : docs[k].is_approved

\* search_with_filters returned rows, fewer than its limit, from a store
\* with an unapproved document that meets every other condition of the query
C21_Witness ==
    /\ Returned("search_with_filters")
    /\ result # <<>>
    /\ Len(result) < args.limit
    /\ \E k \in DOMAIN docs :
          /\ ~docs[k].is_approved
          /\ FilterWhereUnapproved(docs[k], Embed(args.query), args.ui_types,
                                   args.min_score)

\* the category list of the last call restricts the search
Restricted == args.ui_types.given /\ args.ui_types.list # <<>>

\* C22: when search_with_filters is given a non-empty category list, every
\* returned row has a ui_type of that list; when the list is absent or
\* empty the result is that of the search without a list for the same
\* query, min_score and limit.
C22_CategoryFilter ==
    Returned("search_with_filters") =>
        IF Restricted
        THEN \A i \in DOMAIN result : result[i].ui_type \in Range(args.ui_types.list)
        ELSE result = FilterQuery(Embed(args.query), None, args.min_score,
                                  args.limit, args.include_content)

\* a search with a category list returned rows, fewer than its limit, from
\* a store with an approved document above the threshold whose ui_type is
\* not of the list
C22_Witness ==
    /\ Returned("search_with_filters")
    /\ Restricted
    /\ result # <<>>
    /\ Len(result) < args.limit
    /\ \E k \in DOMAIN docs :
          /\ FilterWhereAnyType(docs[k], Embed(args.query), args.ui_types,
                                args.min_score)
          /\ docs[k].ui_type \notin Range(args.ui_types.list)

\* a search with an empty category list returned rows of two ui_types
C22_WitnessEmptyList ==
    /\ Returned("search_with_filters")
    /\ args.ui_types = Some(<<>>)
    /\ \E i, j \in DOMAIN result : result[i].ui_type # result[j].ui_type

\* the last call is a search of one query that returned
SearchReturned == Returned("search_with_filters") \/ Returned("search_similar_documents")

\* the minimum similarity of the last search
Threshold ==
    IF op = "search_with_filters" THEN args.min_score ELSE args.min_similarity

\* document k may be returned by the last search whatever its similarity:
\* it is approved and, for search_with_filters, of the category list
Eligible(k) ==
    /\ docs[k].is_approved
    /\ (op = "search_with_filters" /\ Restricted) =>
          docs[k].ui_type \in Range(args.ui_types.list)

\* the approved documents whose stored vector is the embedding of the query
ExactMatches ==
    {k \in DOMAIN docs : docs[k].is_approved /\ docs[k].embedding = Embed(args.query)}

\* C23 as stated: for every approved document D and every query whose
\* embedding equals D's stored vector, the search (search_with_filters,
\* search_similar_documents) returns D as the first element with
\* similarity 1.0, for every minimum similarity in [0,1], the threshold 1.0
\* included, and every limit of at least 1.
C23_ExactMatchFirst ==
    (SearchReturned /\ args.limit >= 1 /\ Threshold \in 0..One) =>
        \A k \in ExactMatches :
            /\ result # <<>>
            /\ result[1].id = docs[k].id
            /\ result[1].similarity = One

\* C23 amended: for every approved document D that the category list
\* admits and every query whose embedding equals D's stored vector, for
\* every minimum similarity in [0,1) and every limit of at least 1, the
\* first element of the result has similarity 1.0 and is an admitted
\* approved document with D's vector, the documents with D's vector come
\* before every other row, and D itself is returned whenever the limit
\* admits all the admitted approved documents with its vector.  With the
\* minimum similarity 1.0 no exact match is returned, as the comparison at
\* the store is strict.
C23_ExactMatchAtHead ==
    (SearchReturned /\ args.limit >= 1 /\ Threshold \in 0..(One - 1)) =>
        LET admitted == {k \in ExactMatches : Eligible(k)}
            ids == {docs[k].id : k \in admitted}
            head == Min(Cardinality(admitted), args.limit)
        IN admitted # {} =>
              /\ Len(result) >= head
              /\ \A i \in 1..head : result[i].id \in ids /\ result[i].similarity = One
              /\ Cardinality(admitted) <= args.limit =>
                    ids \subseteq {result[i].id : i \in 1..head}

\* a search with a minimum similarity below 1.0 returned an exact match
\* first and a row of lower similarity after it, from a store where a
\* document that is no exact match is stored before the exact match
C23_Witness ==
    /\ SearchReturned /\ op = "search_with_filters"
    /\ Threshold \in 1..(One - 1)
    /\ Len(result) >= 2
    /\ result[1].similarity = One
    /\ result[Len(result)].similarity < One
    /\ \E k \in ExactMatches : Eligible(k) /\ k > 1 /\ docs[1].id = result[Len(result)].id

-----------------------------------------------------------------------------
(* Properties of the embedding provider *)

\* the vectors of the model for the chunks of the i-th text of the call
OwnChunkVectors(i) ==
    ModelEncode(args.instruction, chunk_text(args.texts[i], MaxLength), "ok")

\* two plane vectors point the same way
SameDirection(u, v) ==
    /\ u[1] * v[2] = u[2] * v[1]
    /\ u[1] * v[1] + u[2] * v[2] > 0

\* the squared length of num / den is that of a vector of the backend
IsUnit(vector) ==
    vector.num[1] * vector.num[1] + vector.num[2] * vector.num[2]
        = (UnitVectors[1][1] * UnitVectors[1][1]
           + UnitVectors[1][2] * UnitVectors[1][2]) * vector.den * vector.den

\* every vector the backend returned has the configured dimension
DimensionsAsConfigured ==
    \A i \in DOMAIN calls : \A j \in DOMAIN calls[i].vectors :
        Len(calls[i].vectors[j].num) = EmbeddingDim

\* C16: for every non-empty list of input texts, whatever mix of one-chunk
\* and several-chunk texts it holds, generate_embeddings returns exactly one
\* vector per input text, in input order, and the i-th vector is computed
\* only from the chunks of the i-th text (it points the way the sum of
\* those chunks' vectors points; without chunking it is the text's vector).
C16_OneVectorPerText ==
    /\ (Returned("generate_embeddings") /\ DimensionsAsConfigured) =>
          /\ Len(result) = Len(args.texts)
          /\ \A i \in DOMAIN result :
                SameDirection(result[i].num, SumVectors(OwnChunkVectors(i), 1))
    /\ (Returned("openai_generate_embeddings") /\ DimensionsAsConfigured) =>
          /\ Len(result) = Len(args.texts)
          /\ \A i \in DOMAIN result : result[i] = Encode("", args.texts[i])

\* C17: the vector of a text split into k > 1 chunks is the equal-weight
\* mean of its own k chunk vectors, renormalised to unit length; the vector
\* of a text of one chunk is that chunk's vector unchanged.
C17_MeanRenormalised ==
    (Returned("generate_embeddings") /\ DimensionsAsConfigured) =>
        \A i \in DOMAIN args.texts :
            /\ i \in DOMAIN result
            /\ \E own \in {OwnChunkVectors(i)} :
                  IF Len(own) = 1
                  THEN result[i] = own[1]
                  ELSE /\ IsUnit(result[i])
                       /\ SameDirection(result[i].num, SumVectors(own, 1))

\* the characters of a text that are letters, in order
Content(text) == SelectSeq(text, LAMBDA c : c \in Letters)

RECURSIVE Concat(_)
Concat(texts) == IF texts = <<>> THEN <<>> ELSE texts[1] \o Concat(Tail(texts))

\* C18: every chunk returned by _chunk_text(text, max_length) has length at
\* most max_length, also for a text with a single sentence longer than
\* max_length and for a text without a delimiter, and the chunks keep the
\* sentences of the text in their order.
C18_ChunksBounded ==
    op = "_chunk_text" =>
        /\ \A k \in DOMAIN result : Len(result[k]) <= args.max_length
        /\ Content(Concat(result)) = Content(args.text)

\* the backend raised, or returned a vector of another dimension
BackendFailed ==
    \E i \in DOMAIN calls :
        \/ calls[i].error # ""
        \/ \E j \in DOMAIN calls[i].vectors :
              Len(calls[i].vectors[j].num) # EmbeddingDim

\* C19: generate_embeddings raises, and returns no vectors, whenever the
\* backend is unreachable or a vector it returned has a length other than
\* the configured dimension, at whatever position of the batch; the failed
\* call is not made again.
C19_BackendFailureRaises ==
    (op \in {"generate_embeddings", "openai_generate_embeddings"}
        /\ BackendFailed) =>
        /\ outcome = "error"
        /\ result = <<>>
        /\ \A i \in DOMAIN calls : calls[i].error # "" => i = Len(calls)

-----------------------------------------------------------------------------
(* Properties of the prompt pipeline and of the document importer *)

PipelineOps ==
    {"process_complete_query", "import_from_markdown_files",
     "import_from_json_file", "import_ui_component_library"}

\* C14: no component turns a provider, store, not-found or validation
\* failure into a successful return value: whenever a call made inside
\* process_complete_query, import_from_markdown_files, import_from_json_file
\* or import_ui_component_library raised, the operation has ended in an
\* error and has not returned.
C14_NoFailureSwallowed ==
    (op \in PipelineOps /\ \E i \in DOMAIN calls : calls[i].error # "") =>
        outcome = "error"

-----------------------------------------------------------------------------
(* Properties of the prompts *)

PromptOps ==
    {"generate_comprehensive_prompt", "process_complete_query",
     "generate_design_advice_prompt"}

\* the last call returned a prompt
PromptReturned == op \in PromptOps /\ outcome = "ok"

\* the result list the prompt of the last call was built for: the one it
\* was given, or the one its search returned
PromptRows ==
    IF op = "generate_design_advice_prompt" THEN args.search_results
    ELSE IF op = "generate_comprehensive_prompt"
    THEN FilterQuery(Embed(args.user_query), None, 0, args.search_limit,
                     args.include_code)
    ELSE FilterQuery(Embed(args.user_query), None, 0, 5, TRUE)

\* the system prompt of the last call
SystemPrompt ==
    IF op = "process_complete_query" THEN result.prompt.system ELSE result.system

\* the last call asked for the content of the documents
ContentRequested ==
    \/ op = "generate_comprehensive_prompt" /\ args.include_code
    \/ op = "process_complete_query"

\* the stored document of row i of the result list
DocumentOf(i) == docs[CHOOSE k \in DOMAIN docs : docs[k].id = PromptRows[i].id]

\* part is the first n elements of list, or all of a shorter list
IsFirstOf(part, list, n) ==
    /\ Len(part) = (IF Len(list) < n THEN Len(list) ELSE n)
    /\ \A j \in 1..Len(part) : part[j] = list[j]

\* the excerpt of a block, if it has one
Excerpt(block) ==
    IF "copied_content" \in DOMAIN block THEN block.copied_content ELSE <<>>

\* C24: in the system prompt built for a result list, the block of each
\* result has at most the first 3 improvement suggestions and at most the
\* first 5 keywords of its document, in their stored order, and a content
\* excerpt that is the first 500 characters of the content and is there
\* only when the content was asked for.
C24_BlocksTruncated ==
    PromptReturned =>
        \A i \in DOMAIN SystemPrompt.blocks :
            LET block == SystemPrompt.blocks[i]
                document == DocumentOf(i)
            IN /\ \A k \in DOMAIN block.improvements :
                     IsFirstOf(block.improvements[k],
                               document.claude_evaluation.improvements, 3)
               /\ \A k \in DOMAIN block.keywords :
                     IsFirstOf(block.keywords[k], document.keywords, 5)
               /\ block.keywords = <<>> <=> document.keywords = <<>>
               /\ \A k \in DOMAIN Excerpt(block) :
                     /\ ContentRequested
                     /\ Excerpt(block)[k].of = document.copied_content.of
                     /\ Excerpt(block)[k].length =
                           (IF document.copied_content.length < 500
                            THEN document.copied_content.length ELSE 500)
               /\ (ContentRequested /\ document.copied_content.length > 0) =>
                     Excerpt(block) # <<>>

\* a prompt with the content has a block of a document with more than 3
\* improvements, more than 5 keywords and more than 500 characters, and
\* a block without an excerpt
C24_Witness ==
    /\ PromptReturned /\ ContentRequested
    /\ \E i \in DOMAIN SystemPrompt.blocks :
          /\ Len(DocumentOf(i).claude_evaluation.improvements) > 3
          /\ Len(DocumentOf(i).keywords) > 5
          /\ DocumentOf(i).copied_content.length > 500
          /\ Len(SystemPrompt.blocks[i].improvements[1]) = 3
          /\ Len(SystemPrompt.blocks[i].keywords[1]) = 5
          /\ Excerpt(SystemPrompt.blocks[i])[1].length = 500
    /\ \E i \in DOMAIN SystemPrompt.blocks : Excerpt(SystemPrompt.blocks[i]) = <<>>

\* a prompt asked for without the content has blocks, none with an excerpt
C24_WitnessWithoutContent ==
    /\ Returned("generate_comprehensive_prompt") /\ ~args.include_code
    /\ SystemPrompt.blocks # <<>>
    /\ \A i \in DOMAIN SystemPrompt.blocks : Excerpt(SystemPrompt.blocks[i]) = <<>>
    /\ \E i \in DOMAIN SystemPrompt.blocks : DocumentOf(i).copied_content.length > 0

\* C25: generate_comprehensive_prompt returns a payload with the keys
\* system, user and metadata; the system prompt has exactly one block per
\* search result, numbered 1..n in the order of the result list, and
\* metadata.results_count is n, n = 0 included.
C25_OneBlockPerResult ==
    Returned("generate_comprehensive_prompt") =>
        LET n == calls[2].fetched
        IN /\ DOMAIN result = {"system", "user", "metadata"}
           /\ Len(PromptRows) = n
           /\ DOMAIN result.system.blocks = 1..n
           /\ \A i \in 1..n :
                 /\ result.system.blocks[i].number = i
                 /\ result.system.blocks[i].title = PromptRows[i].title
           /\ result.system.count = n
           /\ result.metadata.results_count = n

\* a prompt for three results of different titles
C25_Witness ==
    /\ Returned("generate_comprehensive_prompt")
    /\ Len(result.system.blocks) = 3
    /\ result.system.blocks[1].title # result.system.blocks[3].title
    /\ result.metadata.results_count = 3

\* a prompt for no result
C25_WitnessEmpty ==
    /\ Returned("generate_comprehensive_prompt")
    /\ calls[2].fetched = 0
    /\ result.system.blocks = <<>>
    /\ result.metadata.results_count = 0

\* C26: prompt assembly is deterministic and free of side effects: a
\* second run of generate_comprehensive_prompt with the same query and the
\* same context over the same store, so for the same result list, gives the
\* same system, user and metadata values as the first, and leaves the store
\* as it is.
C26_Deterministic ==
    [][(/\ Returned("generate_comprehensive_prompt")
        /\ op' = op /\ args' = args /\ outcome' = "ok")
       => (/\ result'.system = result.system
           /\ result'.user = result.user
           /\ result'.metadata = result.metadata
           /\ docs' = docs)]_vars

-----------------------------------------------------------------------------
(* Properties of the category search and of the merge *)

\* C27: semantic_category_search(category, limit) returns at most limit
\* results, for every category, mapped or not, and every limit of at
\* least 1.
C27_AtMostLimit ==
    Returned("semantic_category_search") => Len(result) <= args.limit

\* the one-to-one maps of 1..n onto itself
QueryOrders(n) ==
    {p \in [1..n -> 1..n] : \A i, j \in 1..n : p[i] = p[j] => i = j}

\* the list whose i-th element is element p[i] of list; elements beyond the
\* domain of p stay where they are
Permuted(list, p) ==
    [i \in 1..Len(list) |-> IF i \in DOMAIN p THEN list[p[i]] ELSE list[i]]

\* the weights that go with the permuted queries: weight i is the one of
\* query p[i]; no weights, or an empty list, is the weight 1.0 for each
PermutedWeights(weights, p) ==
    IF weights.given /\ Len(weights.list) >= Len(p)
    THEN Some(Permuted(weights.list, p))
    ELSE weights

\* the all_results dict of multi_query_search at the end of its loop,
\* before the sort and the slice
AllResults(queries, aggregation, weights) ==
    RunQueries(queries, weights, aggregation, 1, <<>>, <<>>, 0, 0).result

\* C28: for the aggregations 'max' and 'weighted', the merged similarity
\* that multi_query_search gives to a document does not depend on the
\* order of the queries: for every permutation of the queries together with
\* their weights the loop ends with the same document ids, each with the
\* same merged similarity.
C28_OrderIndependent ==
    (Returned("multi_query_search") /\ args.aggregation \in {"max", "weighted"}) =>
        \A p \in QueryOrders(Len(args.queries)) :
            Scored(AllResults(Permuted(args.queries, p), args.aggregation,
                              PermutedWeights(args.weights, p)))
              = Scored(AllResults(args.queries, args.aggregation, args.weights))

\* three queries with weights that are not all equal, a document that more
\* than one sub-query returned with different weighted similarities, and a
\* permutation under which the loop meets the documents in another order
C28_Witness ==
    /\ Returned("multi_query_search") /\ args.aggregation = "weighted"
    /\ Len(args.queries) = 3
    /\ args.weights.given /\ Len(args.weights.list) = 3
    /\ args.weights.list[1] # args.weights.list[3]
    /\ \E hits \in {SubQueryRows(args.queries)} :
          \E k \in DOMAIN result :
             \E occ \in {Occurrences(hits, result[k].id)} :
                Len(occ) >= 2 /\ occ[1] # occ[Len(occ)]
    /\ \E p \in QueryOrders(3) :
          AllResults(Permuted(args.queries, p), args.aggregation,
                     PermutedWeights(args.weights, p))
            # AllResults(args.queries, args.aggregation, args.weights)

-----------------------------------------------------------------------------
(* Properties of the counters of the importer *)

ImportOps ==
    {"import_from_markdown_files", "import_from_json_file",
     "import_ui_component_library"}

\* the documents the import of the last call had to attempt
Attempted ==
    CASE op = "import_from_markdown_files" -> args.md_files
      [] op = "import_from_json_file" -> args.json_file.documents
      [] op = "import_ui_component_library" -> Components(args.library_name)
      [] OTHER -> <<>>

\* the calls of the last run that raised: one per document that failed
FailedCalls == {i \in DOMAIN calls : calls[i].error # ""}

\* the INSERTs of the last run that went through: one per document stored
Inserts ==
    {i \in DOMAIN calls :
        calls[i].kind = "store" /\ calls[i].what = "insert" /\ calls[i].error = ""}

\* C29: over an import run of the importer (markdown, JSON or library)
\* that returns normally, imported_count + failed_count grows by the number
\* of documents the run had to attempt: imported_count grows by the number
\* of documents stored, failed_count by the number of documents that
\* failed, no document is in both or in neither, so a failure does not keep
\* the documents after it from being attempted; and get_import_summary
\* reports the two counters with total = imported + failed.
C29_EveryDocumentCounted ==
    [][/\ (Idle /\ op' \in ImportOps /\ outcome' = "ok") =>
            /\ imported_count' + failed_count'
                  = imported_count + failed_count + Len(Attempted')
            /\ imported_count' = imported_count + Cardinality(Inserts')
            /\ failed_count' = failed_count + Cardinality(FailedCalls')
            /\ Len(docs') = Len(docs) + Cardinality(Inserts')
       /\ (op' = "get_import_summary" /\ outcome' = "ok") =>
            /\ result'.imported = imported_count
            /\ result'.failed = failed_count
            /\ result'.total = result'.imported + result'.failed]_vars

\* an import of two documents or more has returned: a document failed, a
\* later one was stored, and both counters have counted
C29_Witness ==
    /\ op \in ImportOps /\ outcome = "ok"
    /\ Len(Attempted) >= 2
    /\ \E i \in FailedCalls : \E j \in Inserts : i < j
    /\ imported_count >= 1 /\ failed_count >= 1
    /\ imported_count + failed_count = Len(Attempted)

\* the summary of an importer that has stored a document and failed on one
C29_WitnessSummary ==
    /\ Returned("get_import_summary")
    /\ result.imported >= 1 /\ result.failed >= 1
    /\ result.total >= 2

-----------------------------------------------------------------------------
(* Properties of the system tester *)

\* the number of lines of the log that are one of the given ones
Lines(log, lines) == Cardinality({i \in DOMAIN log : log[i] \in lines})

\* the tests run so far are the first ones of the list, in its order, each
\* with its line in the log, and passed_tests counts the lines PASSED
InListOrder ==
    /\ Len(result.ran) <= Len(tests)
    /\ result.ran = SubSeq(tests, 1, Len(result.ran))
    /\ Len(result.log) = Len(result.ran)
    /\ result.passed_tests = Lines(result.log, {"PASSED"})

\* the summary is made after all seven tests, and its counts and status are
\* those of the log
SummaryOfAll ==
    result.summary # <<>> =>
        LET summary == result.summary[1]
        IN /\ result.ran = tests
           /\ summary.total_tests = 7
           /\ summary.passed_tests = Lines(result.log, {"PASSED"})
           /\ summary.failed_tests = Lines(result.log, {"FAILED", "ERROR"})
           /\ summary.passed_tests + summary.failed_tests = summary.total_tests
           /\ summary.overall_status = "success" <=> summary.passed_tests = 7
           /\ summary.overall_status = "failed" <=> summary.passed_tests = 0
           /\ summary.overall_status = "partial" <=> summary.passed_tests \in 1..6

\* the exit code that goes with a status
CodeOf(overall_status) ==
    CASE overall_status = "success" -> 0
      [] overall_status = "failed" -> 2
      [] OTHER -> 1

\* C30 as stated: run_all_tests runs all seven tests in the fixed order
\* whatever the outcome of earlier ones, a test that returns False or raises
\* being counted as failed; in the summary passed_tests + failed_tests =
\* total_tests and overall_status is 'success' exactly when all tests
\* passed, 'failed' exactly when none passed and 'partial' otherwise, and
\* main's exit code is 0, 2 and 1 respectively.
C30_ExitCodeOfStatus ==
    op = "main" =>
        /\ InListOrder
        /\ SummaryOfAll
        /\ result.exit_code # <<>> =>
              result.exit_code[1] = CodeOf(result.summary[1].overall_status)

\* C30 as amended: the same, the exit code being 0, 2 and 1 respectively
\* when no --output file is asked for or the file is written, and 3,
\* whatever the status, when writing the --output file raises.
C30_ExitCodeUnlessWriteFails ==
    op = "main" =>
        /\ InListOrder
        /\ SummaryOfAll
        /\ result.exit_code # <<>> =>
              result.exit_code[1] =
                 (IF args.output.given /\ ~args.output.writable THEN 3
                  ELSE CodeOf(result.summary[1].overall_status))

\* main has returned 1: the first test passed, a later one returned False,
\* one after that raised, and a test after both passed
C30_Witness ==
    /\ op = "main" /\ outcome = "ok"
    /\ result.log[1] = "PASSED"
    /\ \E i, j, k \in DOMAIN result.log :
          /\ i < j /\ j < k
          /\ result.log[i] = "FAILED" /\ result.log[j] = "ERROR"
          /\ result.log[k] = "PASSED"
    /\ result.summary[1].overall_status = "partial"
    /\ result.exit_code = <<1>>

\* main has returned 0 after seven tests passed
C30_WitnessSuccess ==
    /\ op = "main" /\ outcome = "ok"
    /\ result.summary[1].passed_tests = 7
    /\ result.exit_code = <<0>>

\* main has returned 2 after the model did not load and no test passed
C30_WitnessFailed ==
    /\ op = "main" /\ outcome = "ok"
    /\ result.summary[1].passed_tests = 0
    /\ result.summary[1].failed_tests = 7
    /\ result.exit_code = <<2>>

====
